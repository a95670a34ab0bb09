------------------------------ MODULE ChatsProofs ------------------------------
(***************************************************************************)
(* Proofs about Chats for any number of chats, messages, events, retries   *)
(* and losses: a message enters its chat once, and nothing that reached a  *)
(* chat is dropped.                                                        *)
(*                                                                         *)
(* The two files of a chat are written one after the other.  What its      *)
(* holder is about to leave is therefore kept both with the events it read *)
(* and with those it is to write, and neither file is written ahead of its *)
(* turn.                                                                   *)
(***************************************************************************)
EXTENDS Chats, TLAPS

-----------------------------------------------------------------------------
(* The invariant.                                                          *)

RetryType == [count : 0..Retries, due : BOOLEAN]
SignInType == [on : BOOLEAN, retries : 0..Backoffs, due : BOOLEAN, user : BOOLEAN]
ChatType == [running : BOOLEAN, messages : Seq(Message), queued : Seq(Message),
             last : SUBSET Thing, retry : RetryType, failure : BOOLEAN,
             signIn : SignInType, settled : SUBSET Thing]

\* The steps that a holder may have left, and those of them with which the
\* chat's file is written, or both files.
ToWrite == {Write, Write \o <<"retry">>, LaunchTurn}
Written == {<<>>, <<"retry">>, <<"put">>}
Todos == ToWrite \cup Written \cup {<<"shared">>, <<"shared", "retry">>, <<"shared", "put">>}
Nexts == {"get", "send", "wake", "tell", "again", "retry"}

OpType == [todo : Todos \cup {<<"unlocked">>}, mine : ChatType, events : SUBSET Event,
           base : [Chat -> SUBSET Event], brings : SUBSET Thing, next : Nexts]

\* A sound file: a retry is of a running turn, and no message is in it twice.
FileOK(k) ==
    /\ k \in ChatType
    /\ k.retry.due => k.running
    /\ IsInjective(k.messages \o k.queued)

\* What a file and the events beside it still have.
Kept(k, events) ==
    events \cup ToSet(k.queued) \cup k.settled \cup (IF k.running \/ k.signIn.on THEN k.last ELSE {})

\* The things got are kept, and their messages are in the chat.
Keeps(k, events, got) == got \subseteq Kept(k, events) /\ got \cap Message \subseteq Users(k)

\* What an operation brings to the chat, before and after it has.
Brings(o) ==
    CASE o.next = "get"  -> Keeps(o.mine, o.events, o.brings)
      [] o.next = "send" -> \E m \in Message : o.brings = {m} /\ m \notin Users(o.mine)
      [] o.next = "tell" -> o.brings \subseteq Event
      [] OTHER           -> o.brings = {}

\* The operation o on a chat with the file k, the events evs and all that came.
HolderOK(k, evs, o, got, base) ==
    /\ o.todo \in Todos
    /\ FileOK(o.mine)
    /\ o.todo \notin ToWrite => k = o.mine
    /\ o.todo \in Written => evs = o.events
    /\ evs \in {base, o.events}
    /\ o.next # "get" => evs = base /\ evs = o.events
    /\ Keeps(o.mine, o.events, got)
    /\ Keeps(o.mine, evs, got)
    /\ Brings(o)

ChatOK(k, evs, o, got, base) ==
    /\ FileOK(k)
    /\ o \in OpType
    /\ Keeps(k, evs, got)
    /\ o # Unlocked => HolderOK(k, evs, o, got, base)

Typed ==
    /\ chat \in [Chat -> ChatType]
    /\ pending \in [Chat -> SUBSET Event]
    /\ op \in [Chat -> OpType]
    /\ attempt \in [Chat -> {"absent", "live"} \cup Outcome]
    /\ marked \in BOOLEAN
    /\ came \in [Chat -> SUBSET Thing]
    /\ losses \in 0..MaxLosses

IInv ==
    /\ Typed
    /\ \A c \in Chat : ChatOK(chat[c], pending[c], op[c], came[c], op[c].base[c])

-----------------------------------------------------------------------------
(* Sequences of messages, and the steps left.                              *)

\* Two sequences have no element twice between them when neither has and they
\* share none.
LEMMA InjectiveConcat ==
    ASSUME NEW s \in Seq(Message), NEW t \in Seq(Message)
    PROVE  IsInjective(s \o t) <=> IsInjective(s) /\ IsInjective(t) /\ ToSet(s) \cap ToSet(t) = {}
<1> DEFINE u == s \o t
<1>1. /\ u \in Seq(Message) /\ Len(u) = Len(s) + Len(t)
      /\ Len(s) \in Nat /\ Len(t) \in Nat
      /\ DOMAIN u = 1..(Len(s) + Len(t)) /\ DOMAIN s = 1..Len(s) /\ DOMAIN t = 1..Len(t)
  OBVIOUS
<1>2. \A i \in 1..Len(s) : u[i] = s[i]
  OBVIOUS
<1>3. \A i \in 1..Len(t) : u[Len(s) + i] = t[i]
  OBVIOUS
<1> HIDE DEF u
<1>4. ASSUME IsInjective(u)
      PROVE  IsInjective(s) /\ IsInjective(t) /\ ToSet(s) \cap ToSet(t) = {}
  <2>1. IsInjective(s)
    BY <1>1, <1>2, <1>4 DEF IsInjective
  <2>2. IsInjective(t)
    <3> SUFFICES ASSUME NEW a \in 1..Len(t), NEW b \in 1..Len(t), t[a] = t[b]
                 PROVE  a = b
      BY <1>1 DEF IsInjective
    <3>1. u[Len(s) + a] = u[Len(s) + b]
      BY <1>3
    <3>2. Len(s) + a \in DOMAIN u /\ Len(s) + b \in DOMAIN u
      BY <1>1
    <3>3. Len(s) + a = Len(s) + b
      BY <3>1, <3>2, <1>4 DEF IsInjective
    <3> QED
      BY <3>3, <1>1
  <2>3. ASSUME NEW a \in 1..Len(s), NEW b \in 1..Len(t), s[a] = t[b]
        PROVE  FALSE
    <3>1. u[a] = u[Len(s) + b]
      BY <1>2, <1>3, <2>3
    <3>2. a \in DOMAIN u /\ Len(s) + b \in DOMAIN u
      BY <1>1
    <3>3. a = Len(s) + b
      BY <3>1, <3>2, <1>4 DEF IsInjective
    <3> QED
      BY <3>3, <1>1
  <2> QED
    BY <2>1, <2>2, <2>3, <1>1 DEF ToSet
<1>5. ASSUME IsInjective(s), IsInjective(t), ToSet(s) \cap ToSet(t) = {}
      PROVE  IsInjective(u)
  <2> SUFFICES ASSUME NEW a \in DOMAIN u, NEW b \in DOMAIN u, u[a] = u[b], a < b
               PROVE  FALSE
    BY <1>1 DEF IsInjective
  <2>1. CASE b \in 1..Len(s)
    BY <2>1, <1>1, <1>2, <1>5 DEF IsInjective
  <2>2. CASE a \in 1..Len(s) /\ b \notin 1..Len(s)
    <3>1. PICK j \in 1..Len(t) : b = Len(s) + j
      <4>1. b - Len(s) \in 1..Len(t) /\ b = Len(s) + (b - Len(s))
        BY <2>2, <1>1
      <4> QED
        BY <4>1
    <3>2. s[a] = t[j]
      BY <3>1, <2>2, <1>2, <1>3
    <3>3. s[a] \in ToSet(s) /\ t[j] \in ToSet(t)
      BY <2>2, <1>1 DEF ToSet
    <3> QED
      BY <3>2, <3>3, <1>5
  <2>3. CASE a \notin 1..Len(s)
    <3>1. PICK i \in 1..Len(t) : a = Len(s) + i
      <4>1. a - Len(s) \in 1..Len(t) /\ a = Len(s) + (a - Len(s))
        BY <2>3, <1>1
      <4> QED
        BY <4>1
    <3>2. PICK j \in 1..Len(t) : b = Len(s) + j
      <4>1. b - Len(s) \in 1..Len(t) /\ b = Len(s) + (b - Len(s))
        BY <2>3, <1>1
      <4> QED
        BY <4>1
    <3>3. t[i] = t[j]
      BY <3>1, <3>2, <1>3
    <3>4. i = j
      BY <3>3, <1>1, <1>5 DEF IsInjective
    <3> QED
      BY <3>1, <3>2, <3>4, <1>1
  <2> QED
    BY <2>1, <2>2, <2>3, <1>1
<1> QED
  BY <1>4, <1>5 DEF u

\* What sequences made of others hold.
LEMMA SetOfConcat ==
    ASSUME NEW s \in Seq(Message), NEW t \in Seq(Message)
    PROVE  ToSet(s \o t) = ToSet(s) \cup ToSet(t)
<1> DEFINE u == s \o t
<1>1. /\ DOMAIN u = 1..(Len(s) + Len(t)) /\ DOMAIN s = 1..Len(s) /\ DOMAIN t = 1..Len(t)
      /\ Len(s) \in Nat /\ Len(t) \in Nat
  OBVIOUS
<1>2. \A i \in 1..Len(s) : u[i] = s[i]
  OBVIOUS
<1>3. \A i \in 1..Len(t) : u[Len(s) + i] = t[i]
  OBVIOUS
<1> HIDE DEF u
<1>4. ToSet(s) \subseteq ToSet(u)
  BY <1>1, <1>2 DEF ToSet
<1>5. ToSet(t) \subseteq ToSet(u)
  <2> SUFFICES ASSUME NEW i \in 1..Len(t) PROVE t[i] \in ToSet(u)
    BY <1>1 DEF ToSet
  <2>1. Len(s) + i \in DOMAIN u
    BY <1>1
  <2> QED
    BY <2>1, <1>3 DEF ToSet
<1>6. ToSet(u) \subseteq ToSet(s) \cup ToSet(t)
  <2> SUFFICES ASSUME NEW i \in DOMAIN u PROVE u[i] \in ToSet(s) \cup ToSet(t)
    BY DEF ToSet
  <2>1. CASE i \in 1..Len(s)
    BY <2>1, <1>1, <1>2 DEF ToSet
  <2>2. CASE i \notin 1..Len(s)
    <3>1. i - Len(s) \in 1..Len(t) /\ i = Len(s) + (i - Len(s))
      BY <2>2, <1>1
    <3>2. u[i] = t[i - Len(s)]
      BY <3>1, <1>3
    <3> QED
      BY <3>1, <3>2, <1>1 DEF ToSet
  <2> QED
    BY <2>1, <2>2
<1> QED
  BY <1>4, <1>5, <1>6 DEF u

\* A sequence of one message.
LEMMA OneMessage ==
    ASSUME NEW m \in Message
    PROVE  <<m>> \in Seq(Message) /\ IsInjective(<<m>>) /\ ToSet(<<m>>) = {m}
  BY DEF IsInjective, ToSet

\* The empty sequence.
LEMMA NoMessage ==
    <<>> \in Seq(Message) /\ IsInjective(<<>>) /\ ToSet(<<>>) = {}
  BY DEF IsInjective, ToSet

\* A message is added to a sequence.
LEMMA SetOfAppend ==
    ASSUME NEW s \in Seq(Message), NEW m \in Message
    PROVE  /\ Append(s, m) \in Seq(Message)
           /\ ToSet(Append(s, m)) = ToSet(s) \cup {m}
           /\ Append(s, m) = s \o <<m>>
<1>1. Append(s, m) \in Seq(Message) /\ Append(s, m) = s \o <<m>>
  OBVIOUS
<1>2. <<m>> \in Seq(Message) /\ ToSet(<<m>>) = {m}
  BY OneMessage
<1>3. ToSet(s \o <<m>>) = ToSet(s) \cup ToSet(<<m>>)
  BY <1>2, SetOfConcat
<1>4. ToSet(Append(s, m)) = ToSet(s) \cup {m}
  BY <1>1, <1>2, <1>3, Zenon
<1> QED
  BY <1>1, <1>4

\* A message that is new to the chat may enter the transcript or the line.
LEMMA NewMessage ==
    ASSUME NEW s \in Seq(Message), NEW q \in Seq(Message), NEW m \in Message,
           IsInjective(s \o q), m \notin ToSet(s) \cup ToSet(q)
    PROVE  IsInjective(Append(s, m) \o q) /\ IsInjective(s \o Append(q, m))
<1>1. IsInjective(s) /\ IsInjective(q) /\ ToSet(s) \cap ToSet(q) = {}
  BY InjectiveConcat
<1>2. \A t \in Seq(Message) : IsInjective(t) /\ m \notin ToSet(t) => IsInjective(Append(t, m))
  <2> SUFFICES ASSUME NEW t \in Seq(Message), IsInjective(t), m \notin ToSet(t)
               PROVE  IsInjective(Append(t, m))
    OBVIOUS
  <2>1. <<m>> \in Seq(Message) /\ IsInjective(<<m>>) /\ ToSet(t) \cap ToSet(<<m>>) = {}
    BY OneMessage
  <2>2. IsInjective(t \o <<m>>)
    BY <2>1, InjectiveConcat
  <2> QED
    BY <2>2, SetOfAppend
<1>3. IsInjective(Append(s, m)) /\ IsInjective(Append(q, m))
  BY <1>1, <1>2
<1>4. /\ Append(s, m) \in Seq(Message) /\ ToSet(Append(s, m)) \cap ToSet(q) = {}
      /\ Append(q, m) \in Seq(Message) /\ ToSet(s) \cap ToSet(Append(q, m)) = {}
  <2>1. Append(s, m) \in Seq(Message) /\ Append(q, m) \in Seq(Message)
    OBVIOUS
  <2>2. ToSet(Append(s, m)) = ToSet(s) \cup {m} /\ ToSet(Append(q, m)) = ToSet(q) \cup {m}
    BY SetOfAppend, Zenon
  <2>3. m \notin ToSet(s) /\ m \notin ToSet(q) /\ ToSet(s) \cap ToSet(q) = {}
    BY <1>1
  <2> QED
    BY <2>1, <2>2, <2>3
<1>5. IsInjective(Append(s, m) \o q)
  BY <1>1, <1>3, <1>4, InjectiveConcat
<1>6. IsInjective(s \o Append(q, m))
  BY <1>1, <1>3, <1>4, InjectiveConcat
<1> QED
  BY <1>5, <1>6

-----------------------------------------------------------------------------
(* What the handlers make of a chat's file.                                *)

\* From a sound file to a sound file of the same messages, that keeps all.
Carries(k, k2, events) ==
    /\ FileOK(k2)
    /\ Users(k2) = Users(k)
    /\ Kept(k, events) \subseteq Kept(k2, events)

\* A file whose messages and line are what they were.
LEMMA SameMessages ==
    ASSUME NEW k, NEW k2, FileOK(k), k2 \in ChatType, k2.retry.due => k2.running,
           k2.messages = k.messages, k2.queued = k.queued
    PROVE  FileOK(k2) /\ Users(k2) = Users(k)
  BY DEF FileOK, Users

\* failTurn keeps what the turn was about, or says that it failed.
LEMMA FailTurnCarries ==
    ASSUME NEW k, FileOK(k), NEW kind, NEW events
    PROVE  Carries(k, FailTurn(k, kind), events)
<1> DEFINE k2 == FailTurn(k, kind)
<1> USE ChatsAssumption
<1>0. k \in ChatType /\ k.retry \in RetryType /\ k.retry.count \in 0..Retries
  BY DEF FileOK, ChatType, RetryType
<1>1. CASE kind # "final" /\ k.retry.count < Retries
  <2>1. k2 = [k EXCEPT !.retry = [count |-> k.retry.count + 1, due |-> TRUE], !.running = TRUE]
    BY <1>1 DEF FailTurn
  <2>2. [count |-> k.retry.count + 1, due |-> TRUE] \in RetryType
    BY <1>0, <1>1 DEF RetryType
  <2>3. /\ k2 \in ChatType /\ k2.running /\ k2.messages = k.messages /\ k2.queued = k.queued
        /\ k2.settled = k.settled /\ k2.last = k.last
    BY <2>1, <2>2, <1>0 DEF ChatType
  <2> HIDE DEF k2
  <2>4. FileOK(k2) /\ Users(k2) = Users(k)
    BY <2>3, SameMessages
  <2>5. Kept(k, events) \subseteq Kept(k2, events)
    BY <2>3 DEF Kept
  <2> QED
    BY <2>4, <2>5 DEF Carries, k2
<1>2. CASE ~(kind # "final" /\ k.retry.count < Retries)
  <2>1. k2 = [k EXCEPT !.retry = NoRetry, !.failure = TRUE, !.settled = @ \cup k.last, !.running = FALSE]
    BY <1>2 DEF FailTurn
  <2>2. NoRetry \in RetryType /\ ~NoRetry.due
    BY DEF RetryType, NoRetry
  <2>3. /\ k2 \in ChatType /\ ~k2.retry.due /\ k2.messages = k.messages /\ k2.queued = k.queued
        /\ k2.settled = k.settled \cup k.last
    BY <2>1, <2>2, <1>0 DEF ChatType
  <2> HIDE DEF k2
  <2>4. FileOK(k2) /\ Users(k2) = Users(k)
    BY <2>3, SameMessages
  <2>5. Kept(k, events) \subseteq Kept(k2, events)
    BY <2>3 DEF Kept
  <2> QED
    BY <2>4, <2>5 DEF Carries, k2
<1> QED
  BY <1>1, <1>2

\* waitForSignIn keeps the prompt.
LEMMA WaitForSignInCarries ==
    ASSUME NEW k, FileOK(k), ~k.retry.due, marked \in BOOLEAN, NEW events
    PROVE  Carries(k, WaitForSignIn(k), events)
<1> DEFINE k2 == WaitForSignIn(k)
           first == [on |-> TRUE, retries |-> k.signIn.retries + 1, due |-> TRUE, user |-> FALSE]
           wait == [k.signIn EXCEPT !.on = TRUE, !.due = FALSE, !.user = TRUE]
           sign == IF TriesAlone(k) THEN first ELSE wait
<1> USE ChatsAssumption
<1>0. k \in ChatType /\ k.signIn \in SignInType /\ k.signIn.retries \in 0..Backoffs
  BY DEF FileOK, ChatType, SignInType
<1>1. TriesAlone(k) => first \in SignInType
  BY <1>0 DEF TriesAlone, SignInType
<1>2. wait \in SignInType /\ wait.on
  BY <1>0 DEF SignInType
<1>3. first.on
  OBVIOUS
<1>4. k2 = [k EXCEPT !.running = FALSE, !.signIn = sign]
  BY DEF WaitForSignIn
<1> HIDE DEF first, wait
<1>5. sign \in SignInType /\ sign.on
  BY <1>1, <1>2, <1>3
<1> HIDE DEF sign, k2
<1>6. /\ k2 \in ChatType /\ ~k2.retry.due /\ k2.messages = k.messages /\ k2.queued = k.queued
      /\ k2.signIn.on /\ k2.settled = k.settled /\ k2.last = k.last
  BY <1>0, <1>4, <1>5 DEF ChatType
<1>7. FileOK(k2) /\ Users(k2) = Users(k)
  BY <1>6, SameMessages
<1>8. Kept(k, events) \subseteq Kept(k2, events)
  BY <1>6 DEF Kept
<1> QED
  BY <1>7, <1>8 DEF Carries, k2

\* A reply settles what the turn was about.
LEMMA CompletedCarries ==
    ASSUME NEW k, FileOK(k), NEW events
    PROVE  Carries(k, Completed(k), events)
<1> DEFINE k2 == Completed(k)
<1>0. k \in ChatType
  BY DEF FileOK
<1>1. NoRetry \in RetryType /\ ~NoRetry.due /\ NoWait \in SignInType
  BY ChatsAssumption DEF RetryType, NoRetry, SignInType, NoWait
<1>2. /\ k2 \in ChatType /\ ~k2.retry.due /\ k2.messages = k.messages /\ k2.queued = k.queued
      /\ k2.settled = k.settled \cup k.last
  BY <1>0, <1>1 DEF ChatType, Completed
<1> HIDE DEF k2
<1>3. FileOK(k2) /\ Users(k2) = Users(k)
  BY <1>2, SameMessages
<1>4. Kept(k, events) \subseteq Kept(k2, events)
  BY <1>2 DEF Kept
<1> QED
  BY <1>3, <1>4 DEF Carries, k2

\* So does the line that says the agent is over its limit.
LEMMA LimitedCarries ==
    ASSUME NEW k, FileOK(k), NEW events
    PROVE  Carries(k, Limited(k), events)
<1> DEFINE k2 == Limited(k)
           last2 == IF k.signIn.on THEN k.last ELSE {}
<1>0. k \in ChatType /\ last2 \in SUBSET Thing
  BY DEF FileOK, ChatType
<1>1. NoRetry \in RetryType /\ ~NoRetry.due
  BY ChatsAssumption DEF RetryType, NoRetry
<1>2. k2 = [k EXCEPT !.running = FALSE, !.retry = NoRetry, !.settled = @ \cup k.last, !.last = last2]
  BY DEF Limited
<1> HIDE DEF last2, k2
<1>3. /\ k2 \in ChatType /\ ~k2.retry.due /\ k2.messages = k.messages /\ k2.queued = k.queued
      /\ k2.settled = k.settled \cup k.last
  BY <1>0, <1>1, <1>2 DEF ChatType
<1>4. FileOK(k2) /\ Users(k2) = Users(k)
  BY <1>3, SameMessages
<1>5. Kept(k, events) \subseteq Kept(k2, events)
  BY <1>3 DEF Kept
<1> QED
  BY <1>4, <1>5 DEF Carries, k2

\* refresh loses nothing, however the turn ended.
LEMMA RefreshedCarries ==
    ASSUME NEW k, FileOK(k), marked \in BOOLEAN, NEW outcome, NEW events
    PROVE  Carries(k, Refreshed(k, outcome), events)
<1>1. CASE ~k.running \/ k.retry.due \/ outcome \in {"absent", "live"}
  <2>1. Refreshed(k, outcome) = k
    BY <1>1 DEF Refreshed
  <2> QED
    BY <2>1 DEF Carries
<1>2. CASE ~(~k.running \/ k.retry.due \/ outcome \in {"absent", "live"})
  <2>1. CASE outcome = "completed"
    <3>1. Refreshed(k, outcome) = Completed(k)
      BY <1>2, <2>1 DEF Refreshed
    <3> QED
      BY <3>1, CompletedCarries
  <2>2. CASE outcome = "limit"
    <3>1. Refreshed(k, outcome) = Limited(k)
      BY <1>2, <2>2 DEF Refreshed
    <3> QED
      BY <3>1, LimitedCarries
  <2>3. CASE outcome = "login"
    <3>1. Refreshed(k, outcome) = WaitForSignIn(k)
      BY <1>2, <2>3 DEF Refreshed
    <3> QED
      BY <3>1, <1>2, WaitForSignInCarries
  <2>4. CASE outcome \notin {"completed", "limit", "login"}
    <3>1. Refreshed(k, outcome) = FailTurn(k, outcome)
      BY <1>2, <2>4 DEF Refreshed
    <3> QED
      BY <3>1, FailTurnCarries
  <2> QED
    BY <2>1, <2>2, <2>3, <2>4
<1> QED
  BY <1>1, <1>2

\* What was kept is kept by a file that carries it on.
LEMMA StillKept ==
    ASSUME NEW k, NEW k2, NEW events, NEW got, Carries(k, k2, events), Keeps(k, events, got)
    PROVE  Keeps(k2, events, got)
  BY DEF Carries, Keeps

-----------------------------------------------------------------------------
(* The rest of an operation.                                               *)

\* What an operation on the file k brings, before it has done so.
Bringing(next, k, brings) ==
    /\ next = "send" => \E m \in Message : brings = {m} /\ m \notin Users(k)
    /\ next = "tell" => brings \subseteq Event
    /\ next \notin {"get", "send", "tell"} => brings = {}

\* What it comes to: a file k2, events e2 and steps todo, from k and events.
Follows(k, events, k2, e2, todo, got) ==
    /\ FileOK(k2)
    /\ e2 \subseteq Event
    /\ todo \in {Write, LaunchTurn, <<"retry">>, <<>>}
    /\ todo \in {<<"retry">>, <<>>} => k2 = k /\ e2 = events
    /\ Users(k) \subseteq Users(k2)
    /\ Kept(k, events) \subseteq Kept(k2, e2)
    /\ Kept(k, events) \subseteq Kept(k2, events)
    /\ got \subseteq Kept(k2, e2) /\ got \cap Message \subseteq Users(k2)

\* Write and LaunchTurn are not what is left after them.
LEMMA StepsDiffer ==
    /\ Write # <<>> /\ Write # <<"retry">> /\ LaunchTurn # <<>> /\ LaunchTurn # <<"retry">>
    /\ Write \notin {<<"retry">>, <<>>} /\ LaunchTurn \notin {<<"retry">>, <<>>}
  BY DEF Write, LaunchTurn

\* A turn on a new prompt.
LEMMA StartTurnType ==
    ASSUME NEW k \in ChatType, NEW prompt \in SUBSET Thing
    PROVE  LET k2 == StartTurn(k, prompt) IN
           /\ k2 \in ChatType /\ ~k2.retry.due /\ k2.running /\ k2.last = prompt
           /\ k2.messages = k.messages /\ k2.queued = k.queued /\ k2.settled = k.settled
<1>1. NoRetry \in RetryType /\ ~NoRetry.due
  BY ChatsAssumption DEF RetryType, NoRetry
<1> QED
  BY <1>1 DEF StartTurn, ChatType

\* A message is queued behind the turn under way.
LEMMA QueuedFollows ==
    ASSUME NEW k, FileOK(k), NEW events \in SUBSET Event, NEW m \in Message, m \notin Users(k), k.running
    PROVE  LET go == Sent(k, events, m) IN Follows(k, events, go.mine, go.events, go.todo, {m})
<1> DEFINE go == Sent(k, events, m)
           k2 == [k EXCEPT !.queued = Append(k.queued, m)]
<1>0. k \in ChatType /\ k.messages \in Seq(Message) /\ k.queued \in Seq(Message)
  BY DEF FileOK, ChatType
<1>1. go.mine = k2 /\ go.events = events /\ go.todo = Write
  BY DEF Sent, Going
<1>2. Append(k.queued, m) \in Seq(Message) /\ ToSet(Append(k.queued, m)) = ToSet(k.queued) \cup {m}
  BY <1>0, SetOfAppend
<1>3. IsInjective(k.messages \o Append(k.queued, m))
  BY <1>0, NewMessage DEF FileOK, Users
<1>4. /\ k2 \in ChatType /\ k2.messages = k.messages /\ k2.queued = Append(k.queued, m)
      /\ k2.settled = k.settled /\ k2.last = k.last /\ k2.running = k.running
      /\ k2.signIn = k.signIn /\ k2.retry = k.retry
  BY <1>0, <1>2 DEF ChatType
<1> HIDE DEF k2
<1>5. FileOK(k2)
  BY <1>3, <1>4 DEF FileOK
<1>6. Users(k2) = Users(k) \cup {m}
  BY <1>2, <1>4 DEF Users
<1>7. Kept(k2, events) = Kept(k, events) \cup {m}
  BY <1>2, <1>4 DEF Kept
<1> HIDE DEF go
<1>8. Follows(k, events, k2, events, Write, {m})
  BY <1>5, <1>6, <1>7, StepsDiffer DEF Follows
<1> QED
  BY <1>1, <1>8 DEF go

\* A message starts a turn.
LEMMA SentFollows ==
    ASSUME NEW k, FileOK(k), NEW events \in SUBSET Event, NEW m \in Message, m \notin Users(k), ~k.running
    PROVE  LET go == Sent(k, events, m) IN Follows(k, events, go.mine, go.events, go.todo, {m})
<1> DEFINE go == Sent(k, events, m)
           k1 == [k EXCEPT !.messages = Append(k.messages, m)]
           kept == IF k.signIn.on THEN k.last ELSE {}
           prompt == kept \cup {m} \cup events
           k2 == StartTurn(k1, prompt)
<1>0. k \in ChatType /\ k.messages \in Seq(Message) /\ k.queued \in Seq(Message) /\ k.last \subseteq Thing
  BY DEF FileOK, ChatType
<1>1. go.mine = k2 /\ go.events = {} /\ go.todo = LaunchTurn
  BY DEF Sent, Going
<1>2. Append(k.messages, m) \in Seq(Message) /\ ToSet(Append(k.messages, m)) = ToSet(k.messages) \cup {m}
  BY <1>0, SetOfAppend
<1>3. IsInjective(Append(k.messages, m) \o k.queued)
  BY <1>0, NewMessage DEF FileOK, Users
<1>4. /\ k1 \in ChatType /\ k1.messages = Append(k.messages, m) /\ k1.queued = k.queued
      /\ k1.settled = k.settled
  BY <1>0, <1>2 DEF ChatType
<1>5. prompt \in SUBSET Thing
  BY <1>0 DEF Thing
<1> HIDE DEF k1, prompt
<1>6. /\ k2 \in ChatType /\ ~k2.retry.due /\ k2.running /\ k2.last = prompt
      /\ k2.messages = Append(k.messages, m) /\ k2.queued = k.queued /\ k2.settled = k.settled
  BY <1>4, <1>5, StartTurnType
<1> HIDE DEF k2
<1>7. FileOK(k2)
  BY <1>3, <1>6 DEF FileOK
<1>8. Users(k2) = Users(k) \cup {m}
  BY <1>2, <1>6 DEF Users
<1>9. Kept(k, events) \cup {m} \subseteq Kept(k2, {})
  BY <1>6 DEF Kept, prompt
<1>10. Kept(k2, {}) \subseteq Kept(k2, events)
  BY DEF Kept
<1> HIDE DEF go
<1>11. Follows(k, events, k2, {}, LaunchTurn, {m})
  BY <1>7, <1>8, <1>9, <1>10, StepsDiffer DEF Follows
<1> QED
  BY <1>1, <1>11 DEF go

\* A turn on what waits: the line enters the transcript and the prompt.
LEMMA WakeFollows ==
    ASSUME NEW k, FileOK(k), NEW events \in SUBSET Event, Waiting(k, events)
    PROVE  Follows(k, events, StartWaitingTurn(k, events), {}, LaunchTurn, {})
<1> DEFINE k1 == [k EXCEPT !.messages = k.messages \o k.queued, !.queued = <<>>]
           prompt == ToSet(k.queued) \cup events
           k2 == StartTurn(k1, prompt)
<1>0. k \in ChatType /\ k.messages \in Seq(Message) /\ k.queued \in Seq(Message)
  BY DEF FileOK, ChatType
<1>1. StartWaitingTurn(k, events) = k2
  BY DEF StartWaitingTurn
<1>2. /\ k.messages \o k.queued \in Seq(Message)
      /\ ToSet(k.messages \o k.queued) = ToSet(k.messages) \cup ToSet(k.queued)
  BY <1>0, SetOfConcat
<1>3. (k.messages \o k.queued) \o <<>> = k.messages \o k.queued
  BY <1>2
<1>4. /\ k1 \in ChatType /\ k1.messages = k.messages \o k.queued /\ k1.queued = <<>>
      /\ k1.settled = k.settled
  BY <1>0, <1>2, NoMessage DEF ChatType
<1>5. prompt \in SUBSET Thing
  BY <1>0 DEF Thing, ToSet
<1> HIDE DEF k1, prompt
<1>6. /\ k2 \in ChatType /\ ~k2.retry.due /\ k2.running /\ k2.last = prompt
      /\ k2.messages = k.messages \o k.queued /\ k2.queued = <<>> /\ k2.settled = k.settled
  BY <1>4, <1>5, StartTurnType
<1> HIDE DEF k2
<1>7. FileOK(k2)
  BY <1>3, <1>6 DEF FileOK
<1>8. Users(k2) = Users(k)
  BY <1>2, <1>6, NoMessage DEF Users
<1>9. Kept(k, events) \subseteq Kept(k2, {})
  BY <1>6 DEF Kept, prompt, Waiting
<1>10. Kept(k2, {}) \subseteq Kept(k2, events)
  BY DEF Kept
<1>11. Follows(k, events, k2, {}, LaunchTurn, {})
  BY <1>7, <1>8, <1>9, <1>10, StepsDiffer DEF Follows
<1> QED
  BY <1>1, <1>11

\* The kept prompt again, with the events that came meanwhile.
LEMMA AgainFollows ==
    ASSUME NEW k, FileOK(k), NEW events \in SUBSET Event
    PROVE  Follows(k, events, StartTurn(k, k.last \cup events), {}, LaunchTurn, {})
<1> DEFINE prompt == k.last \cup events
           k2 == StartTurn(k, prompt)
<1>0. k \in ChatType /\ prompt \in SUBSET Thing
  BY DEF FileOK, ChatType, Thing
<1> HIDE DEF prompt
<1>1. /\ k2 \in ChatType /\ ~k2.retry.due /\ k2.running /\ k2.last = prompt
      /\ k2.messages = k.messages /\ k2.queued = k.queued /\ k2.settled = k.settled
  BY <1>0, StartTurnType
<1> HIDE DEF k2
<1>2. FileOK(k2) /\ Users(k2) = Users(k)
  BY <1>1, SameMessages
<1>3. Kept(k, events) \subseteq Kept(k2, {})
  BY <1>1 DEF Kept, prompt
<1>4. Kept(k2, {}) \subseteq Kept(k2, events)
  BY DEF Kept
<1>5. Follows(k, events, k2, {}, LaunchTurn, {})
  BY <1>2, <1>3, <1>4, StepsDiffer DEF Follows
<1> QED
  BY <1>5 DEF k2, prompt

\* Nothing more to do with the file, with these steps left.
LEMMA NothingFollows ==
    ASSUME NEW k, FileOK(k), NEW events \in SUBSET Event, NEW todo \in {<<"retry">>, <<>>},
           NEW brings, Keeps(k, events, brings)
    PROVE  Follows(k, events, k, events, todo, brings)
  BY DEF Follows, Keeps

\* Events for the assistant.
LEMMA TellFollows ==
    ASSUME NEW k, FileOK(k), NEW events \in SUBSET Event, NEW brings \in SUBSET Event
    PROVE  Follows(k, events, k, events \cup brings, Write, brings)
<1>1. brings \cap Message = {}
  BY ChatsAssumption
<1>2. events \cup brings \subseteq Event
  OBVIOUS
<1>3. Kept(k, events) \cup brings \subseteq Kept(k, events \cup brings)
  BY DEF Kept
<1> QED
  BY <1>1, <1>2, <1>3, StepsDiffer DEF Follows

\* Whatever an operation was called for.
LEMMA RestFollows ==
    ASSUME NEW k, FileOK(k), NEW events \in SUBSET Event, NEW next \in Nexts, NEW brings,
           Bringing(next, k, brings), next = "get" => Keeps(k, events, brings)
    PROVE  LET go == Rest(next, k, events, brings) IN
           Follows(k, events, go.mine, go.events, go.todo, brings)
<1> DEFINE go == Rest(next, k, events, brings)
<1>1. CASE next = "send"
  <2>1. PICK m \in Message : brings = {m} /\ m \notin Users(k)
    BY <1>1 DEF Bringing
  <2>2. (CHOOSE x \in brings : TRUE) = m
    BY <2>1
  <2>3. go = Sent(k, events, m)
    BY <1>1, <2>2 DEF Rest
  <2>4. Follows(k, events, Sent(k, events, m).mine, Sent(k, events, m).events, Sent(k, events, m).todo, {m})
    <3>1. CASE k.running
      BY <2>1, <3>1, QueuedFollows
    <3>2. CASE ~k.running
      BY <2>1, <3>2, SentFollows
    <3> QED
      BY <3>1, <3>2
  <2> HIDE DEF go
  <2>5. Follows(k, events, go.mine, go.events, go.todo, brings)
    BY <2>1, <2>3, <2>4
  <2> QED
    BY <2>5 DEF go
<1>2. CASE next = "wake" /\ Waiting(k, events)
  <2>1. go = Going(StartWaitingTurn(k, events), {}, LaunchTurn) /\ brings = {}
    BY <1>2 DEF Rest, Bringing
  <2>2. go.mine = StartWaitingTurn(k, events) /\ go.events = {} /\ go.todo = LaunchTurn
    BY <2>1 DEF Going
  <2> HIDE DEF go
  <2>3. Follows(k, events, go.mine, go.events, go.todo, brings)
    BY <1>2, <2>1, <2>2, WakeFollows
  <2> QED
    BY <2>3 DEF go
<1>3. CASE next = "tell"
  <2>1. go = Going(k, events \cup brings, Write) /\ brings \subseteq Event
    BY <1>3 DEF Rest, Bringing
  <2>2. go.mine = k /\ go.events = events \cup brings /\ go.todo = Write
    BY <2>1 DEF Going
  <2> HIDE DEF go
  <2>3. Follows(k, events, go.mine, go.events, go.todo, brings)
    BY <2>1, <2>2, TellFollows
  <2> QED
    BY <2>3 DEF go
<1>4. CASE next = "again"
  <2>1. go = Going(StartTurn(k, k.last \cup events), {}, LaunchTurn) /\ brings = {}
    BY <1>4 DEF Rest, Bringing
  <2>2. go.mine = StartTurn(k, k.last \cup events) /\ go.events = {} /\ go.todo = LaunchTurn
    BY <2>1 DEF Going
  <2> HIDE DEF go
  <2>3. Follows(k, events, go.mine, go.events, go.todo, brings)
    BY <2>1, <2>2, AgainFollows
  <2> QED
    BY <2>3 DEF go
<1>5. CASE next \in {"get", "retry"} \/ (next = "wake" /\ ~Waiting(k, events))
  <2>1. Keeps(k, events, brings)
    BY <1>5 DEF Bringing, Keeps
  <2>2. \E todo \in {<<"retry">>, <<>>} : go = Going(k, events, todo)
    BY <1>5 DEF Rest
  <2>3. PICK todo \in {<<"retry">>, <<>>} : go = Going(k, events, todo)
    BY <2>2
  <2>4. go.mine = k /\ go.events = events /\ go.todo = todo
    BY <2>3 DEF Going
  <2> HIDE DEF go
  <2>5. Follows(k, events, go.mine, go.events, go.todo, brings)
    BY <2>1, <2>4, NothingFollows
  <2> QED
    BY <2>5 DEF go
<1> QED
  BY <1>1, <1>2, <1>3, <1>4, <1>5 DEF Nexts

-----------------------------------------------------------------------------
(* The steps left.                                                         *)

\* What is left when the chat's file is written.
Half == {<<"shared">>, <<"shared", "retry">>, <<"shared", "put">>}

\* The step at hand says which steps are left, and so which files are written.
LEMMA StepsLeft ==
    ASSUME NEW t \in Todos \cup {<<"unlocked">>}, t # <<>>, Head(t) # "unlocked"
    PROVE  /\ Head(t) \in {"chat", "turn"} => t \in ToWrite /\ <<>> \o Tail(t) \in Half
           /\ Head(t) = "shared" => t \in Half /\ <<>> \o Tail(t) \in Written
           /\ Head(t) = "retry" => t = <<"retry">>
           /\ Head(t) = "put" => t = <<"put">>
<1>1. \/ t = <<"chat", "shared">> \/ t = <<"chat", "shared", "retry">> \/ t = <<"turn", "shared", "put">>
      \/ t = <<"shared">> \/ t = <<"shared", "retry">> \/ t = <<"shared", "put">>
      \/ t = <<"retry">> \/ t = <<"put">> \/ t = <<"unlocked">>
  BY DEF Todos, ToWrite, Written, Write, LaunchTurn
<1>2. CASE t = <<"chat", "shared">>
  BY <1>2 DEF ToWrite, Half, Write
<1>3. CASE t = <<"chat", "shared", "retry">>
  BY <1>3 DEF ToWrite, Half, Write
<1>4. CASE t = <<"turn", "shared", "put">>
  BY <1>4 DEF ToWrite, Half, LaunchTurn
<1>5. CASE t = <<"shared">>
  BY <1>5 DEF Half, Written
<1>6. CASE t = <<"shared", "retry">>
  BY <1>6 DEF Half, Written
<1>7. CASE t = <<"shared", "put">>
  BY <1>7 DEF Half, Written
<1>8. CASE t = <<"retry">> \/ t = <<"put">> \/ t = <<"unlocked">>
  BY <1>8
<1> QED
  BY <1>1, <1>2, <1>3, <1>4, <1>5, <1>6, <1>7, <1>8

\* The parts of an operation are apart.
LEMMA PartsApart ==
    /\ Write \in ToWrite /\ Write \o <<>> = Write /\ Write \o <<"retry">> \in ToWrite
    /\ LaunchTurn \in ToWrite /\ LaunchTurn \o <<>> = LaunchTurn
    /\ ToWrite \cap Written = {} /\ ToWrite \cap Half = {} /\ Half \cap Written = {}
    /\ Todos = ToWrite \cup Written \cup Half
    /\ <<>> \in Written /\ <<"retry">> \in Written /\ <<"put">> \in Written
    /\ Tail(<<"retry">>) = <<>> /\ Tail(<<"put">>) = <<>>
<1>1. /\ ToWrite = {<<"chat", "shared">>, <<"chat", "shared", "retry">>, <<"turn", "shared", "put">>}
      /\ Write \in ToWrite /\ Write \o <<>> = Write /\ Write \o <<"retry">> \in ToWrite
      /\ LaunchTurn \in ToWrite /\ LaunchTurn \o <<>> = LaunchTurn
  BY DEF ToWrite, Write, LaunchTurn
<1>2. ToWrite \cap Written = {} /\ ToWrite \cap Half = {}
  BY <1>1 DEF Written, Half
<1>3. Half \cap Written = {}
  BY DEF Half, Written
<1>4. Todos = ToWrite \cup Written \cup Half
  BY DEF Todos, Half
<1>5. Tail(<<"retry">>) = <<>> /\ Tail(<<"put">>) = <<>>
  OBVIOUS
<1> QED
  BY <1>1, <1>2, <1>3, <1>4, <1>5 DEF Written

\* An unlocked chat.
LEMMA UnlockedType ==
    Unlocked \in OpType /\ NewChat \in ChatType /\ FileOK(NewChat) /\ Unlocked.todo = <<"unlocked">>
<1>1. NoRetry \in RetryType /\ ~NoRetry.due /\ NoWait \in SignInType
  BY ChatsAssumption DEF RetryType, NoRetry, SignInType, NoWait
<1>2. NewChat \in ChatType /\ ~NewChat.retry.due /\ NewChat.messages = <<>> /\ NewChat.queued = <<>>
  BY <1>1 DEF NewChat, ChatType
<1>3. <<>> \o <<>> = <<>>
  OBVIOUS
<1>4. FileOK(NewChat)
  BY <1>2, <1>3, NoMessage DEF FileOK
<1>5. Unlocked \in OpType /\ Unlocked.todo = <<"unlocked">>
  BY <1>2 DEF Unlocked, OpType, Nexts
<1> QED
  BY <1>2, <1>4, <1>5

-----------------------------------------------------------------------------
(* One chat's step.                                                        *)

\* The other chats stay as they are.
Others(c) ==
    \A d \in Chat \ {c} :
        chat'[d] = chat[d] /\ pending'[d] = pending[d] /\ op'[d] = op[d] /\ came'[d] = came[d]

\* The invariant of each chat is about its own entries only.
LEMMA OneChatSteps ==
    ASSUME IInv, NEW c \in Chat, Others(c), Typed',
           ChatOK(chat'[c], pending'[c], op'[c], came'[c], op'[c].base[c])
    PROVE  IInv'
<1> SUFFICES ASSUME NEW d \in Chat
             PROVE  ChatOK(chat'[d], pending'[d], op'[d], came'[d], op'[d].base[d])
  BY DEF IInv
<1>1. CASE d = c
  BY <1>1
<1>2. CASE d # c
  BY <1>2 DEF Others, IInv
<1> QED
  BY <1>1, <1>2

\* Nothing is lost to a file by what else may happen to the operation on it.
LEMMA MoreIsKept ==
    ASSUME NEW k, NEW events, NEW got, NEW more, Keeps(k, events, got), Keeps(k, events, more)
    PROVE  Keeps(k, events, got \cup more)
  BY DEF Keeps

\* The holder goes on with the operation held, or returns.
LEMMA HeldKeeps ==
    ASSUME IInv, NEW c \in Chat, NEW held \in OpType, Held(c, held),
           chat' \in [Chat -> ChatType], pending' \in [Chat -> SUBSET Event],
           attempt' \in [Chat -> {"absent", "live"} \cup Outcome], marked' \in BOOLEAN, losses' \in 0..MaxLosses,
           \A d \in Chat \ {c} : chat'[d] = chat[d] /\ pending'[d] = pending[d],
           FileOK(chat'[c]), Keeps(chat'[c], pending'[c], came[c]),
           HolderOK(chat'[c], pending'[c], held, came[c], held.base[c])
    PROVE  IInv'
<1> DEFINE over == held.todo = <<>> /\ held.next = "get"
           o2 == IF over THEN Unlocked ELSE held
           came2 == IF over THEN came[c] \cup held.brings ELSE came[c]
<1>0. op \in [Chat -> OpType] /\ came \in [Chat -> SUBSET Thing] /\ held.brings \subseteq Thing
  BY DEF IInv, Typed, OpType
<1>1. op' = [op EXCEPT ![c] = o2] /\ came' = [came EXCEPT ![c] = came2]
  BY DEF Held
<1>2. o2 \in OpType
  BY UnlockedType
<1>3. came2 \in SUBSET Thing
  BY <1>0
<1>4. over => Keeps(chat'[c], pending'[c], held.brings)
  <2> SUFFICES ASSUME over PROVE Keeps(chat'[c], pending'[c], held.brings)
    OBVIOUS
  <2>1. held.todo \in Written /\ held.todo \notin ToWrite
    BY PartsApart
  <2>2. chat'[c] = held.mine /\ pending'[c] = held.events
    BY <2>1 DEF HolderOK
  <2>3. Keeps(held.mine, held.events, held.brings)
    BY DEF HolderOK, Brings
  <2> QED
    BY <2>2, <2>3
<1>5. Keeps(chat'[c], pending'[c], came2)
  BY <1>4, MoreIsKept
<1>6. o2 # Unlocked => HolderOK(chat'[c], pending'[c], o2, came2, o2.base[c])
  OBVIOUS
<1> HIDE DEF o2, came2, over
<1>7. /\ op' \in [Chat -> OpType] /\ op'[c] = o2
      /\ came' \in [Chat -> SUBSET Thing] /\ came'[c] = came2
      /\ \A d \in Chat \ {c} : op'[d] = op[d] /\ came'[d] = came[d]
  BY <1>0, <1>1, <1>2, <1>3
<1>8. Typed' /\ Others(c)
  BY <1>7 DEF Typed, Others
<1>9. ChatOK(chat'[c], pending'[c], op'[c], came'[c], op'[c].base[c])
  BY <1>2, <1>5, <1>6, <1>7 DEF ChatOK
<1> QED
  BY <1>8, <1>9, OneChatSteps

\* What follows from the file k and the events beside it makes a sound operation.
LEMMA FollowsIsHeld ==
    ASSUME NEW k, NEW events, NEW got, NEW brings, NEW o \in OpType,
           FileOK(k), Keeps(k, events, got), Follows(k, events, o.mine, o.events, o.todo, brings),
           o.brings = brings, o.next = "get",
           NEW base, events = base \/ events = o.events
    PROVE  HolderOK(k, events, o, got, base)
<1>1. o.todo \in Todos /\ FileOK(o.mine)
  BY PartsApart DEF Follows
<1>2. o.todo \notin ToWrite => k = o.mine
  BY PartsApart DEF Follows
<1>3. o.todo \in Written => events = o.events
  BY PartsApart DEF Follows
<1>4. Keeps(o.mine, o.events, got) /\ Keeps(o.mine, events, got) /\ Keeps(o.mine, o.events, brings)
  BY DEF Follows, Keeps
<1> QED
  BY <1>1, <1>2, <1>3, <1>4 DEF HolderOK, Brings

\* An operation that opens a chat as it is, and goes on at once.
LEMMA OpenAtOnce ==
    ASSUME IInv, NEW c \in Chat, NEW next \in Nexts, NEW brings \in SUBSET Thing,
           Bringing(next, chat[c], brings), next = "get" => brings = {},
           Refreshed(chat[c], attempt[c]) = chat[c],
           Open(c, next, brings)
    PROVE  ChatOK(chat[c], pending[c], op'[c], came[c], op'[c].base[c]) /\ op'[c] \in OpType
<1> DEFINE k == chat[c]
           go == Rest(next, k, pending[c], brings)
           o2 == [mine |-> go.mine, events |-> go.events, todo |-> go.todo, base |-> pending,
                  brings |-> brings, next |-> "get"]
<1>0. /\ op \in [Chat -> OpType] /\ pending \in [Chat -> SUBSET Event] /\ pending[c] \in SUBSET Event
      /\ FileOK(k) /\ Keeps(k, pending[c], came[c])
  BY DEF IInv, Typed, ChatOK
<1>1. op'[c] = o2
  BY <1>0 DEF Open
<1>2. Keeps(k, pending[c], {})
  BY DEF Keeps
<1>3. Follows(k, pending[c], go.mine, go.events, go.todo, brings)
  BY <1>0, <1>2, RestFollows
<1> HIDE DEF go
<1>4. go.mine \in ChatType /\ go.events \in SUBSET Event /\ go.todo \in Todos
  BY <1>3, PartsApart DEF Follows, FileOK
<1>5. o2 \in OpType
  BY <1>0, <1>4 DEF OpType, Nexts
<1>6. /\ o2.mine = go.mine /\ o2.events = go.events /\ o2.todo = go.todo /\ o2.brings = brings
      /\ o2.next = "get" /\ o2.base = pending
  OBVIOUS
<1> HIDE DEF o2
<1>7. HolderOK(k, pending[c], o2, came[c], o2.base[c])
  BY <1>0, <1>3, <1>5, <1>6, FollowsIsHeld
<1> QED
  BY <1>0, <1>1, <1>5, <1>7 DEF ChatOK

\* An operation that first writes what the end of the turn changes.
LEMMA OpenAtEnd ==
    ASSUME IInv, NEW c \in Chat, NEW next \in Nexts, NEW brings \in SUBSET Thing,
           Bringing(next, chat[c], brings), next = "get" => brings = {},
           Refreshed(chat[c], attempt[c]) # chat[c],
           Open(c, next, brings)
    PROVE  ChatOK(chat[c], pending[c], op'[c], came[c], op'[c].base[c]) /\ op'[c] \in OpType
<1> DEFINE k == chat[c]
           k2 == Refreshed(k, attempt[c])
           retry == IF attempt[c] = "correctable" /\ k2.retry.due THEN <<"retry">> ELSE <<>>
           todo == Write \o retry
           o2 == [mine |-> k2, events |-> pending[c], todo |-> todo, base |-> pending,
                  brings |-> brings, next |-> next]
<1>0. /\ op \in [Chat -> OpType] /\ pending \in [Chat -> SUBSET Event] /\ pending[c] \in SUBSET Event
      /\ FileOK(k) /\ Keeps(k, pending[c], came[c]) /\ marked \in BOOLEAN
  BY DEF IInv, Typed, ChatOK
<1>1. op'[c] = o2
  BY <1>0 DEF Open, Going
<1>2. Carries(k, k2, pending[c])
  BY <1>0, RefreshedCarries
<1>3. todo \in ToWrite
  BY PartsApart
<1> HIDE DEF k2, todo
<1>4. k2 \in ChatType /\ FileOK(k2) /\ Users(k2) = Users(k)
  BY <1>2 DEF Carries, FileOK
<1>5. o2 \in OpType
  BY <1>0, <1>3, <1>4, PartsApart DEF OpType
<1>6. /\ o2.mine = k2 /\ o2.events = pending[c] /\ o2.todo = todo /\ o2.brings = brings
      /\ o2.next = next /\ o2.base = pending
  OBVIOUS
<1> HIDE DEF o2
<1>7. Keeps(k2, pending[c], came[c])
  BY <1>0, <1>2, StillKept
<1>8. Brings(o2)
  <2>1. CASE next = "get"
    <3>1. Keeps(k2, pending[c], {})
      BY DEF Keeps
    <3> QED
      BY <2>1, <3>1, <1>6 DEF Brings
  <2>2. CASE next = "send"
    BY <2>2, <1>4, <1>6 DEF Brings, Bringing
  <2>3. CASE next = "tell"
    BY <2>3, <1>6 DEF Brings, Bringing
  <2>4. CASE next \notin {"get", "send", "tell"}
    BY <2>4, <1>6 DEF Brings, Bringing
  <2> QED
    BY <2>1, <2>2, <2>3, <2>4
<1>9. HolderOK(k, pending[c], o2, came[c], o2.base[c])
  BY <1>3, <1>4, <1>6, <1>7, <1>8, PartsApart DEF HolderOK
<1> QED
  BY <1>0, <1>1, <1>5, <1>9 DEF ChatOK

\* Opening a chat.
LEMMA OpenKeeps ==
    ASSUME IInv, NEW c \in Chat, NEW next \in Nexts, NEW brings \in SUBSET Thing,
           Bringing(next, chat[c], brings), next = "get" => brings = {},
           Open(c, next, brings)
    PROVE  IInv'
<1>1. ChatOK(chat[c], pending[c], op'[c], came[c], op'[c].base[c]) /\ op'[c] \in OpType
  BY OpenAtOnce, OpenAtEnd
<1>2. UNCHANGED <<chat, pending, attempt, came, losses>>
  BY DEF Open
<1>3. op \in [Chat -> OpType] /\ marked \in BOOLEAN
  BY DEF IInv, Typed
<1>4. op' = [op EXCEPT ![c] = op'[c]]
  BY <1>3 DEF Open
<1>5. op' \in [Chat -> OpType] /\ \A d \in Chat \ {c} : op'[d] = op[d]
  BY <1>1, <1>3, <1>4
<1>6. marked' \in BOOLEAN
  BY <1>3 DEF Open
<1>7. Typed' /\ Others(c)
  BY <1>2, <1>5, <1>6 DEF IInv, Typed, Others
<1>8. ChatOK(chat'[c], pending'[c], op'[c], came'[c], op'[c].base[c])
  BY <1>1, <1>2
<1> QED
  BY <1>7, <1>8, OneChatSteps

-----------------------------------------------------------------------------
(* The holder's steps.                                                     *)

\* What is known of the chat whose lock somebody holds.
LEMMA Holding ==
    ASSUME IInv, NEW c \in Chat, op[c] # Unlocked
    PROVE  /\ chat \in [Chat -> ChatType] /\ pending \in [Chat -> SUBSET Event]
           /\ attempt \in [Chat -> {"absent", "live"} \cup Outcome]
           /\ marked \in BOOLEAN /\ losses \in 0..MaxLosses /\ pending[c] \in SUBSET Event
           /\ FileOK(chat[c]) /\ Keeps(chat[c], pending[c], came[c])
           /\ op[c] \in OpType /\ FileOK(op[c].mine) /\ op[c].mine \in ChatType
           /\ op[c].events \in SUBSET Event /\ op[c].base \in [Chat -> SUBSET Event]
           /\ op[c].todo \in Todos \cup {<<"unlocked">>}
           /\ HolderOK(chat[c], pending[c], op[c], came[c], op[c].base[c])
<1>1. Typed /\ ChatOK(chat[c], pending[c], op[c], came[c], op[c].base[c])
  BY DEF IInv
<1>2. /\ FileOK(chat[c]) /\ Keeps(chat[c], pending[c], came[c]) /\ op[c] \in OpType
      /\ HolderOK(chat[c], pending[c], op[c], came[c], op[c].base[c])
  BY <1>1 DEF ChatOK
<1>3. FileOK(op[c].mine)
  BY <1>2 DEF HolderOK
<1>4. /\ op[c].mine \in ChatType /\ op[c].events \in SUBSET Event /\ op[c].base \in [Chat -> SUBSET Event]
      /\ op[c].todo \in Todos \cup {<<"unlocked">>}
  BY <1>2 DEF OpType
<1> QED
  BY <1>1, <1>2, <1>3, <1>4 DEF Typed

\* A step in hand.
LEMMA StepInHand ==
    ASSUME NEW c, NEW name, name # "unlocked", Step(c, name)
    PROVE  op[c] # Unlocked /\ op[c].todo # <<>> /\ Head(op[c].todo) = name /\ Head(op[c].todo) # "unlocked"
  BY DEF Step

\* The refreshed chat is written, and the operation goes on.
LEMMA GoOnKeeps ==
    ASSUME IInv, NEW c \in Chat, GoOn(c)
    PROVE  IInv'
<1> DEFINE o == op[c]
           go == Rest(o.next, o.mine, o.events, o.brings)
           held == [o EXCEPT !.mine = go.mine, !.events = go.events, !.todo = go.todo, !.next = "get"]
<1>1. o.todo = <<>> /\ o # Unlocked
  <2>1. o.todo = <<>>
    BY DEF GoOn
  <2>2. Unlocked.todo # <<>>
    BY UnlockedType
  <2> QED
    BY <2>1, <2>2
<1>2. Held(c, held) /\ UNCHANGED <<chat, pending, attempt, marked, losses>>
  BY DEF GoOn
<1>3. o \in OpType /\ FileOK(o.mine) /\ o.events \in SUBSET Event /\ o.next \in Nexts
  BY <1>1, Holding DEF OpType
<1>4. HolderOK(chat[c], pending[c], o, came[c], o.base[c])
  BY <1>1, Holding
<1>5. chat[c] = o.mine /\ pending[c] = o.events
  BY <1>1, <1>4, PartsApart DEF HolderOK
<1>6. Bringing(o.next, o.mine, o.brings) /\ (o.next = "get" => Keeps(o.mine, o.events, o.brings))
  <2>1. Brings(o)
    BY <1>4 DEF HolderOK
  <2>2. CASE o.next = "get"
    BY <2>1, <2>2 DEF Brings, Bringing
  <2>3. CASE o.next = "send"
    BY <2>1, <2>3 DEF Brings, Bringing
  <2>4. CASE o.next = "tell"
    BY <2>1, <2>4 DEF Brings, Bringing
  <2>5. CASE o.next \notin {"get", "send", "tell"}
    BY <2>1, <2>5 DEF Brings, Bringing
  <2> QED
    BY <2>2, <2>3, <2>4, <2>5
<1>7. Follows(o.mine, o.events, go.mine, go.events, go.todo, o.brings)
  BY <1>3, <1>6, RestFollows
<1>8. o.next = "get" => go.events = o.events
  BY DEF Rest, Going
<1>9. o.next # "get" => pending[c] = o.base[c]
  BY <1>4 DEF HolderOK
<1> HIDE DEF go
<1>10. go.mine \in ChatType /\ go.events \in SUBSET Event /\ go.todo \in Todos
  BY <1>7, PartsApart DEF Follows, FileOK
<1>11. held \in OpType
  BY <1>3, <1>10 DEF OpType, Nexts
<1>12. /\ held.mine = go.mine /\ held.events = go.events /\ held.todo = go.todo
       /\ held.next = "get" /\ held.brings = o.brings /\ held.base = o.base
  BY <1>3 DEF OpType
<1> HIDE DEF held
<1>13. pending[c] = held.base[c] \/ pending[c] = held.events
  BY <1>5, <1>8, <1>9, <1>12
<1>14. Follows(chat[c], pending[c], held.mine, held.events, held.todo, o.brings)
  BY <1>5, <1>7, <1>12
<1>15. FileOK(chat[c]) /\ Keeps(chat[c], pending[c], came[c])
  BY <1>1, Holding
<1>16. HolderOK(chat[c], pending[c], held, came[c], held.base[c])
  BY <1>11, <1>12, <1>13, <1>14, <1>15, FollowsIsHeld
<1>17. /\ chat \in [Chat -> ChatType] /\ pending \in [Chat -> SUBSET Event]
       /\ attempt \in [Chat -> {"absent", "live"} \cup Outcome]
       /\ marked \in BOOLEAN /\ losses \in 0..MaxLosses
  BY <1>1, Holding
<1> QED
  BY <1>2, <1>11, <1>15, <1>16, <1>17, HeldKeeps

\* A holder with both files written makes another file of the chat.
LEMMA AnotherFile ==
    ASSUME IInv, NEW c \in Chat, op[c] # Unlocked, op[c].todo \in {<<"retry">>, <<"put">>},
           NEW k2, \A events : Carries(op[c].mine, k2, events),
           NEW todo \in {Write, LaunchTurn}, Onward(c, k2, todo),
           UNCHANGED <<chat, pending, attempt, marked, losses>>
    PROVE  IInv'
<1> DEFINE o == op[c]
           held == [o EXCEPT !.mine = k2, !.todo = todo \o Tail(o.todo)]
<1>1. todo \o Tail(o.todo) = todo /\ todo \in ToWrite /\ o.todo \in Written /\ o.todo \notin ToWrite
  BY PartsApart
<1>2. FileOK(k2) /\ k2 \in ChatType /\ Users(k2) = Users(o.mine)
  BY DEF Carries, FileOK
<1>3. o \in OpType
  BY Holding
<1>4. HolderOK(chat[c], pending[c], o, came[c], o.base[c])
  BY Holding
<1>5. Held(c, held)
  BY DEF Onward
<1>6. held \in OpType
  BY <1>1, <1>2, <1>3, PartsApart DEF OpType
<1>7. /\ held.mine = k2 /\ held.events = o.events /\ held.todo = todo
      /\ held.next = o.next /\ held.brings = o.brings /\ held.base = o.base
  BY <1>1, <1>3 DEF OpType
<1> HIDE DEF held
<1>8. Keeps(k2, o.events, came[c]) /\ Keeps(k2, pending[c], came[c])
  <2>1. Keeps(o.mine, o.events, came[c]) /\ Keeps(o.mine, pending[c], came[c])
    BY <1>4 DEF HolderOK
  <2>2. Carries(o.mine, k2, o.events) /\ Carries(o.mine, k2, pending[c])
    OBVIOUS
  <2> QED
    BY <2>1, <2>2, StillKept
<1>9. Brings(held)
  <2>1. Brings(o)
    BY <1>4 DEF HolderOK
  <2>2. CASE o.next = "get"
    <3>1. Carries(o.mine, k2, o.events) /\ Keeps(o.mine, o.events, o.brings)
      BY <2>1, <2>2 DEF Brings
    <3>2. Keeps(k2, o.events, o.brings)
      BY <3>1, StillKept
    <3> QED
      BY <2>2, <3>2, <1>7 DEF Brings
  <2>3. CASE o.next = "send"
    BY <2>1, <2>3, <1>2, <1>7 DEF Brings
  <2>4. CASE o.next = "tell"
    BY <2>1, <2>4, <1>7 DEF Brings
  <2>5. CASE o.next \notin {"get", "send", "tell"}
    BY <2>1, <2>5, <1>7 DEF Brings
  <2> QED
    BY <2>2, <2>3, <2>4, <2>5
<1>10. /\ pending[c] \in {o.base[c], o.events}
       /\ o.next # "get" => pending[c] = o.base[c] /\ pending[c] = o.events
  BY <1>4 DEF HolderOK
<1>11. HolderOK(chat[c], pending[c], held, came[c], held.base[c])
  BY <1>1, <1>2, <1>7, <1>8, <1>9, <1>10, PartsApart DEF HolderOK
<1>12. /\ chat \in [Chat -> ChatType] /\ pending \in [Chat -> SUBSET Event]
       /\ attempt \in [Chat -> {"absent", "live"} \cup Outcome]
       /\ marked \in BOOLEAN /\ losses \in 0..MaxLosses
       /\ FileOK(chat[c]) /\ Keeps(chat[c], pending[c], came[c])
  BY Holding
<1> QED
  BY <1>5, <1>6, <1>11, <1>12, HeldKeeps

\* retryDue: the same prompt again, or the turn fails for good.
LEMMA RetryStepKeeps ==
    ASSUME IInv, NEW c \in Chat, RetryStep(c)
    PROVE  IInv'
<1> DEFINE k == op[c].mine
           again == [k EXCEPT !.retry.due = FALSE]
<1>1. /\ op[c] # Unlocked /\ op[c].todo # <<>> /\ Head(op[c].todo) = "retry"
      /\ UNCHANGED <<chat, pending, attempt, marked, losses>>
  BY StepInHand DEF RetryStep
<1>2. op[c].todo = <<"retry">>
  BY <1>1, Holding, StepsLeft
<1>3. FileOK(k) /\ k \in ChatType /\ k.retry \in RetryType
  BY <1>1, Holding DEF ChatType
<1>4. CASE Onward(c, again, LaunchTurn)
  <2>1. again = [k EXCEPT !.retry = [k.retry EXCEPT !.due = FALSE]]
    OBVIOUS
  <2>2. [k.retry EXCEPT !.due = FALSE] \in RetryType /\ ~[k.retry EXCEPT !.due = FALSE].due
    BY <1>3 DEF RetryType
  <2>3. /\ again \in ChatType /\ ~again.retry.due /\ again.messages = k.messages /\ again.queued = k.queued
        /\ again.settled = k.settled /\ again.last = k.last /\ again.running = k.running /\ again.signIn = k.signIn
    BY <1>3, <2>1, <2>2 DEF ChatType
  <2> HIDE DEF again
  <2>4. FileOK(again) /\ Users(again) = Users(k)
    BY <1>3, <2>3, SameMessages
  <2>5. \A events : Carries(k, again, events)
    BY <2>3, <2>4 DEF Carries, Kept
  <2> QED
    BY <1>1, <1>2, <1>4, <2>5, AnotherFile
<1>5. CASE Onward(c, FailTurn(k, "final"), Write)
  <2>1. \A events : Carries(k, FailTurn(k, "final"), events)
    BY <1>3, FailTurnCarries
  <2> QED
    BY <1>1, <1>2, <1>5, <2>1, AnotherFile
<1> QED
  BY <1>4, <1>5 DEF RetryStep

\* The worker is out of reach: another try, or the turn fails for good.
LEMMA PutFailsKeeps ==
    ASSUME IInv, NEW c \in Chat, PutFails(c)
    PROVE  IInv'
<1>1. /\ op[c] # Unlocked /\ op[c].todo # <<>> /\ Head(op[c].todo) = "put"
      /\ UNCHANGED <<chat, pending, attempt, marked, losses>>
      /\ Onward(c, FailTurn(op[c].mine, "transient"), Write)
  BY StepInHand DEF PutFails
<1>2. op[c].todo = <<"put">>
  BY <1>1, Holding, StepsLeft
<1>3. FileOK(op[c].mine)
  BY <1>1, Holding
<1>4. \A events : Carries(op[c].mine, FailTurn(op[c].mine, "transient"), events)
  BY <1>3, FailTurnCarries
<1> QED
  BY <1>1, <1>2, <1>4, AnotherFile

\* A holder that goes on with the file as it is.
LEMMA HeldOn ==
    ASSUME NEW c, op[c] \in OpType, Onward(c, op[c].mine, <<>>), NEW todo \in Todos,
           <<>> \o Tail(op[c].todo) = todo
    PROVE  \E held \in OpType :
             /\ Held(c, held) /\ held.mine = op[c].mine /\ held.events = op[c].events /\ held.todo = todo
             /\ held.next = op[c].next /\ held.brings = op[c].brings /\ held.base = op[c].base
<1> DEFINE held == [op[c] EXCEPT !.mine = op[c].mine, !.todo = <<>> \o Tail(op[c].todo)]
<1>1. Held(c, held)
  BY DEF Onward
<1>2. /\ held \in OpType /\ held.mine = op[c].mine /\ held.events = op[c].events /\ held.todo = todo
      /\ held.next = op[c].next /\ held.brings = op[c].brings /\ held.base = op[c].base
  BY DEF OpType
<1> QED
  BY <1>1, <1>2

\* The chat's file is written.
LEMMA WriteChatKeeps ==
    ASSUME IInv, NEW c \in Chat, WriteChat(c)
    PROVE  IInv'
<1> DEFINE o == op[c]
<1>1. o # Unlocked /\ o.todo # <<>> /\ Head(o.todo) \in {"chat", "turn"} /\ Head(o.todo) # "unlocked"
  BY StepInHand DEF WriteChat
<1>2. o.todo \in ToWrite /\ <<>> \o Tail(o.todo) \in Half
  BY <1>1, Holding, StepsLeft
<1>3. o \in OpType /\ FileOK(o.mine) /\ o.mine \in ChatType /\ HolderOK(chat[c], pending[c], o, came[c], o.base[c])
  BY <1>1, Holding
<1>4. PICK held \in OpType :
        /\ Held(c, held) /\ held.mine = o.mine /\ held.events = o.events /\ held.todo \in Half
        /\ held.next = o.next /\ held.brings = o.brings /\ held.base = o.base
  <2>1. Onward(c, o.mine, <<>>)
    BY DEF WriteChat
  <2>2. <<>> \o Tail(o.todo) \in Todos
    BY <1>2, PartsApart
  <2> QED
    BY <2>1, <2>2, <1>2, <1>3, HeldOn
<1>5. /\ chat \in [Chat -> ChatType] /\ pending \in [Chat -> SUBSET Event]
      /\ attempt \in [Chat -> {"absent", "live"} \cup Outcome] /\ marked \in BOOLEAN /\ losses \in 0..MaxLosses
  BY <1>1, Holding
<1>6. chat' = [chat EXCEPT ![c] = o.mine] /\ UNCHANGED <<pending, marked, losses>>
  BY DEF WriteChat
<1>7. attempt' \in [Chat -> {"absent", "live"} \cup Outcome]
  <2>1. attempt' = [attempt EXCEPT ![c] = "absent"] \/ attempt' = attempt
    BY DEF WriteChat
  <2> QED
    BY <1>5, <2>1
<1>8. chat' \in [Chat -> ChatType] /\ chat'[c] = o.mine /\ \A d \in Chat \ {c} : chat'[d] = chat[d]
  BY <1>3, <1>5, <1>6
<1>9. Keeps(o.mine, pending[c], came[c]) /\ Brings(o)
  BY <1>3 DEF HolderOK
<1>10. Brings(held)
  BY <1>4, <1>9 DEF Brings
<1>11. HolderOK(o.mine, pending[c], held, came[c], held.base[c])
  <2>1. held.todo \in Todos /\ held.todo \notin ToWrite /\ held.todo \notin Written
    BY <1>4, PartsApart
  <2>2. /\ pending[c] \in {o.base[c], o.events} /\ Keeps(o.mine, o.events, came[c])
        /\ o.next # "get" => pending[c] = o.base[c] /\ pending[c] = o.events
    BY <1>3 DEF HolderOK
  <2> QED
    BY <2>1, <2>2, <1>3, <1>4, <1>9, <1>10 DEF HolderOK
<1>12. /\ FileOK(chat'[c]) /\ Keeps(chat'[c], pending'[c], came[c])
       /\ HolderOK(chat'[c], pending'[c], held, came[c], held.base[c])
       /\ pending' \in [Chat -> SUBSET Event] /\ marked' \in BOOLEAN /\ losses' \in 0..MaxLosses
       /\ \A d \in Chat \ {c} : chat'[d] = chat[d] /\ pending'[d] = pending[d]
  BY <1>3, <1>5, <1>6, <1>8, <1>9, <1>11
<1> QED
  BY <1>4, <1>7, <1>8, <1>12, HeldKeeps

\* merge: the shared state then has this chat's events as its holder left them.
LEMMA Merged ==
    ASSUME NEW current \in [Chat -> SUBSET Event], NEW base \in [Chat -> SUBSET Event], NEW c \in Chat,
           NEW events \in SUBSET Event, current[c] \in {base[c], events}
    PROVE  LET merged == Merge(current, base, c, events) IN
           /\ merged \in [Chat -> SUBSET Event] /\ merged[c] = events
           /\ \A d \in Chat \ {c} : merged[d] = current[d]
  BY DEF Merge

\* The shared file is written.
LEMMA WriteSharedKeeps ==
    ASSUME IInv, NEW c \in Chat, WriteShared(c)
    PROVE  IInv'
<1> DEFINE o == op[c]
<1>1. o # Unlocked /\ o.todo # <<>> /\ Head(o.todo) = "shared" /\ Head(o.todo) # "unlocked"
  BY StepInHand DEF WriteShared
<1>2. o.todo \in Half /\ <<>> \o Tail(o.todo) \in Written
  BY <1>1, Holding, StepsLeft
<1>3. /\ o \in OpType /\ FileOK(o.mine) /\ HolderOK(chat[c], pending[c], o, came[c], o.base[c])
      /\ o.events \in SUBSET Event /\ o.base \in [Chat -> SUBSET Event]
  BY <1>1, Holding
<1>4. PICK held \in OpType :
        /\ Held(c, held) /\ held.mine = o.mine /\ held.events = o.events /\ held.todo \in Written
        /\ held.next = o.next /\ held.brings = o.brings /\ held.base = o.base
  <2>1. Onward(c, o.mine, <<>>)
    BY DEF WriteShared
  <2>2. <<>> \o Tail(o.todo) \in Todos
    BY <1>2, PartsApart
  <2> QED
    BY <2>1, <2>2, <1>2, <1>3, HeldOn
<1>5. /\ chat \in [Chat -> ChatType] /\ pending \in [Chat -> SUBSET Event]
      /\ attempt \in [Chat -> {"absent", "live"} \cup Outcome] /\ marked \in BOOLEAN /\ losses \in 0..MaxLosses
  BY <1>1, Holding
<1>6. /\ pending[c] \in {o.base[c], o.events} /\ Keeps(o.mine, o.events, came[c]) /\ Brings(o)
      /\ o.next # "get" => pending[c] = o.base[c] /\ pending[c] = o.events
      /\ chat[c] = o.mine
  <2>1. o.todo \notin ToWrite
    BY <1>2, PartsApart
  <2> QED
    BY <2>1, <1>3 DEF HolderOK
<1>7. pending' = Merge(pending, o.base, c, o.events) /\ UNCHANGED <<chat, attempt, marked, losses>>
  BY DEF WriteShared
<1>8. /\ pending' \in [Chat -> SUBSET Event] /\ pending'[c] = o.events
      /\ \A d \in Chat \ {c} : pending'[d] = pending[d]
  BY <1>3, <1>5, <1>6, <1>7, Merged
<1>9. Brings(held)
  BY <1>4, <1>6 DEF Brings
<1>10. HolderOK(o.mine, o.events, held, came[c], held.base[c])
  <2>1. held.todo \in Todos /\ held.todo \notin ToWrite
    BY <1>4, PartsApart
  <2> QED
    BY <2>1, <1>3, <1>4, <1>6, <1>9 DEF HolderOK
<1>11. /\ FileOK(chat'[c]) /\ Keeps(chat'[c], pending'[c], came[c])
       /\ HolderOK(chat'[c], pending'[c], held, came[c], held.base[c])
       /\ \A d \in Chat \ {c} : chat'[d] = chat[d] /\ pending'[d] = pending[d]
  BY <1>3, <1>6, <1>7, <1>8, <1>10
<1>12. /\ chat' \in [Chat -> ChatType] /\ attempt' \in [Chat -> {"absent", "live"} \cup Outcome]
       /\ marked' \in BOOLEAN /\ losses' \in 0..MaxLosses
  BY <1>5, <1>7
<1> QED
  BY <1>4, <1>8, <1>11, <1>12, HeldKeeps

\* The worker accepted the turn.
LEMMA PutAcceptedKeeps ==
    ASSUME IInv, NEW c \in Chat, PutAccepted(c)
    PROVE  IInv'
<1> DEFINE o == op[c]
<1>1. o # Unlocked /\ o.todo # <<>> /\ Head(o.todo) = "put" /\ Head(o.todo) # "unlocked"
  BY StepInHand DEF PutAccepted
<1>2. o.todo = <<"put">> /\ <<>> \o Tail(o.todo) = <<>>
  <2>1. o.todo = <<"put">>
    BY <1>1, Holding, StepsLeft
  <2>2. <<>> \o Tail(<<"put">>) = <<>>
    OBVIOUS
  <2> QED
    BY <2>1, <2>2
<1>3. o \in OpType /\ FileOK(o.mine) /\ HolderOK(chat[c], pending[c], o, came[c], o.base[c])
  BY <1>1, Holding
<1>4. PICK held \in OpType :
        /\ Held(c, held) /\ held.mine = o.mine /\ held.events = o.events /\ held.todo = <<>>
        /\ held.next = o.next /\ held.brings = o.brings /\ held.base = o.base
  <2>1. Onward(c, o.mine, <<>>)
    BY DEF PutAccepted
  <2>2. <<>> \in Todos
    BY PartsApart
  <2> QED
    BY <2>1, <2>2, <1>2, <1>3, HeldOn
<1>5. /\ chat \in [Chat -> ChatType] /\ pending \in [Chat -> SUBSET Event]
      /\ attempt \in [Chat -> {"absent", "live"} \cup Outcome] /\ marked \in BOOLEAN /\ losses \in 0..MaxLosses
      /\ FileOK(chat[c]) /\ Keeps(chat[c], pending[c], came[c])
  BY <1>1, Holding
<1>6. /\ chat[c] = o.mine /\ pending[c] = o.events /\ Brings(o)
      /\ pending[c] \in {o.base[c], o.events} /\ Keeps(o.mine, o.events, came[c])
      /\ o.next # "get" => pending[c] = o.base[c] /\ pending[c] = o.events
  <2>1. o.todo \notin ToWrite /\ o.todo \in Written
    BY <1>2, PartsApart
  <2> QED
    BY <2>1, <1>3 DEF HolderOK
<1>7. attempt' = [attempt EXCEPT ![c] = "live"] /\ UNCHANGED <<chat, pending, marked, losses>>
  BY DEF PutAccepted
<1>8. Brings(held)
  BY <1>4, <1>6 DEF Brings
<1>9. HolderOK(chat[c], pending[c], held, came[c], held.base[c])
  <2>1. held.todo \in Todos /\ held.todo \notin ToWrite
    BY <1>4, PartsApart
  <2> QED
    BY <2>1, <1>3, <1>4, <1>6, <1>8 DEF HolderOK
<1>10. attempt' \in [Chat -> {"absent", "live"} \cup Outcome]
  BY <1>5, <1>7
<1> QED
  BY <1>4, <1>5, <1>7, <1>9, <1>10, HeldKeeps

-----------------------------------------------------------------------------
(* The theorems.                                                           *)

\* Holders whose operations are cut short lose nothing.
LEMMA CutShort ==
    ASSUME IInv, NEW C \in SUBSET Chat, UNCHANGED <<chat, pending, attempt, marked, came>>, losses' \in 0..MaxLosses,
           op' = [c \in Chat |-> IF c \in C THEN Unlocked ELSE op[c]]
    PROVE  IInv'
<1>1. Typed'
  BY UnlockedType DEF IInv, Typed
<1>2. ASSUME NEW c \in Chat
      PROVE  ChatOK(chat'[c], pending'[c], op'[c], came'[c], op'[c].base[c])
  <2>0. ChatOK(chat[c], pending[c], op[c], came[c], op[c].base[c])
    BY DEF IInv
  <2>1. CASE c \in C
    <3>1. op'[c] = Unlocked
      BY <2>1
    <3> QED
      BY <2>0, <3>1, UnlockedType DEF ChatOK
  <2>2. CASE c \notin C
    <3>1. op'[c] = op[c]
      BY <2>2
    <3> QED
      BY <2>0, <3>1
  <2> QED
    BY <2>1, <2>2
<1> QED
  BY <1>1, <1>2 DEF IInv

\* What a message or an event that is new to the chat brings.
LEMMA EachKeeps ==
    ASSUME IInv, NEW c \in Chat
    PROVE  /\ \A m \in Message : Send(c, m) => IInv'
           /\ \A e \in Event : Tell(c, e) => IInv'
           /\ Get(c) \/ WakeIfWaiting(c) \/ RetryDue(c) \/ RetryTurn(c) \/ RetrySignIn(c) => IInv'
<1>1. ASSUME NEW m \in Message, Send(c, m) PROVE IInv'
  <2>1. {m} \in SUBSET Thing /\ "send" \in Nexts /\ Bringing("send", chat[c], {m})
    BY <1>1 DEF Thing, Nexts, Bringing, Send
  <2>2. Open(c, "send", {m})
    BY <1>1 DEF Send
  <2> QED
    BY <2>1, <2>2, OpenKeeps
<1>2. ASSUME NEW e \in Event, Tell(c, e) PROVE IInv'
  <2>1. {e} \in SUBSET Thing /\ "tell" \in Nexts /\ Bringing("tell", chat[c], {e})
    BY DEF Thing, Nexts, Bringing
  <2>2. Open(c, "tell", {e})
    BY <1>2 DEF Tell
  <2> QED
    BY <2>1, <2>2, OpenKeeps
<1>3. ASSUME NEW next \in {"get", "wake", "retry", "again"}, Open(c, next, {}) PROVE IInv'
  <2>1. {} \in SUBSET Thing /\ next \in Nexts /\ Bringing(next, chat[c], {})
    BY DEF Nexts, Bringing
  <2> QED
    BY <1>3, <2>1, OpenKeeps
<1> QED
  BY <1>1, <1>2, <1>3 DEF Get, WakeIfWaiting, RetryDue, RetryTurn, RetrySignIn

\* The initial state.
LEMMA InitSound == Init => IInv
<1> SUFFICES ASSUME Init PROVE IInv
  OBVIOUS
<1>1. Typed
  <2>1. chat \in [Chat -> ChatType] /\ op \in [Chat -> OpType]
    BY UnlockedType DEF Init
  <2>2. losses \in 0..MaxLosses
    BY ChatsAssumption DEF Init
  <2> QED
    BY <2>1, <2>2 DEF Init, Typed
<1>2. ASSUME NEW c \in Chat
      PROVE  ChatOK(chat[c], pending[c], op[c], came[c], op[c].base[c])
  <2>1. chat[c] = NewChat /\ op[c] = Unlocked /\ came[c] = {} /\ pending[c] = {}
    BY DEF Init
  <2>2. Keeps(chat[c], pending[c], came[c])
    BY <2>1 DEF Keeps
  <2> QED
    BY <2>1, <2>2, UnlockedType DEF ChatOK
<1> QED
  BY <1>1, <1>2 DEF IInv

\* Every step preserves the invariant.
LEMMA StepSound == IInv /\ [Next]_vars => IInv'
<1> SUFFICES ASSUME IInv, [Next]_vars PROVE IInv'
  OBVIOUS
<1>1. CASE UNCHANGED vars
  BY <1>1 DEF vars, IInv, Typed
<1>2. ASSUME NEW c \in Chat, Holder(c) PROVE IInv'
  BY <1>2, GoOnKeeps, RetryStepKeeps, WriteChatKeeps, WriteSharedKeeps, PutAcceptedKeeps, PutFailsKeeps
     DEF Holder
<1>3. ASSUME NEW c \in Chat, NoWorker(c) PROVE IInv'
  <2>1. op' = [d \in Chat |-> IF d \in {c} THEN Unlocked ELSE op[d]]
    BY <1>3 DEF NoWorker, IInv, Typed
  <2>2. losses' \in 0..MaxLosses
    BY <1>3, ChatsAssumption DEF NoWorker, IInv, Typed
  <2> QED
    BY <1>3, <2>1, <2>2, CutShort DEF NoWorker
<1>4. CASE Crash
  <2>1. op' = [d \in Chat |-> IF d \in Chat THEN Unlocked ELSE op[d]]
    BY <1>4 DEF Crash
  <2>2. losses' \in 0..MaxLosses
    BY <1>4, ChatsAssumption DEF Crash, IInv, Typed
  <2> QED
    BY <1>4, <2>1, <2>2, CutShort DEF Crash
<1>5. ASSUME NEW c \in Chat, NEW o \in Outcome, EndTurn(c, o) PROVE IInv'
  <2>1. UNCHANGED <<chat, pending, op, marked, came, losses>> /\ attempt' = [attempt EXCEPT ![c] = o]
    BY <1>5 DEF EndTurn
  <2>2. Typed'
    BY <2>1 DEF IInv, Typed
  <2> QED
    BY <2>1, <2>2 DEF IInv
<1>6. CASE SignAgentIn
  <2>1. UNCHANGED <<chat, pending, op, attempt, came, losses>> /\ marked' = FALSE
    BY <1>6 DEF SignAgentIn
  <2>2. Typed'
    BY <2>1 DEF IInv, Typed
  <2> QED
    BY <2>1, <2>2 DEF IInv
<1>7. CASE Next
  BY <1>2, <1>3, <1>4, <1>5, <1>6, <1>7, EachKeeps DEF Next
<1> QED
  BY <1>1, <1>7

\* In every state the invariant holds.
LEMMA Invariance == Spec => []IInv
<1>1. Init => IInv
  BY InitSound
<1>2. IInv /\ [Next]_vars => IInv'
  BY StepSound
<1> QED
  BY <1>1, <1>2, PTL DEF Spec

\* What a chat shows is sound at every moment: its files are well formed, a
\* message the user sent is in the transcript or in line, never in both and
\* never twice, and once it was accepted it stays (send, startWaitingTurn,
\* write, merge), whatever crashes, retries and other chats come between.
THEOREM ChatsStaySound == Spec => []ChatsAreSound
<1>1. IInv => ChatsAreSound
  <2> SUFFICES ASSUME IInv PROVE ChatsAreSound
    OBVIOUS
  <2>1. \A c \in Chat : FileOK(chat[c]) /\ Keeps(chat[c], pending[c], came[c])
    BY DEF IInv, ChatOK
  <2>2. MessagesEnterOnce
    BY <2>1 DEF MessagesEnterOnce, FileOK, Keeps
  <2>3. ASSUME NEW c \in Chat
        PROVE  LET k == chat[c] IN
               /\ k.running \in BOOLEAN /\ k.failure \in BOOLEAN
               /\ k.messages \in Seq(Message) /\ k.queued \in Seq(Message)
               /\ k.last \cup k.settled \subseteq Thing
               /\ k.retry \in RetryType /\ k.signIn \in SignInType
               /\ k.retry.due => k.running
    <3>1. chat[c] \in ChatType /\ (chat[c].retry.due => chat[c].running)
      BY <2>1 DEF FileOK
    <3> QED
      BY <3>1 DEF ChatType
  <2>4. TypeOK
    BY <2>3 DEF TypeOK, IInv, Typed, RetryType, SignInType
  <2> QED
    BY <2>2, <2>4 DEF ChatsAreSound
<1> QED
  BY <1>1, Invariance, PTL

\* Nothing that reached a chat is dropped, however its turns end and whenever
\* the coordinator stops between the write of the chat's file, the merge into
\* the shared one and the call of the worker (launchTurn, merge, failTurn).
THEOREM NothingIsEverDropped == Spec => []NothingIsDropped
<1>1. IInv => NothingIsDropped
  BY DEF IInv, ChatOK, Keeps, Kept, NothingIsDropped
<1> QED
  BY <1>1, Invariance, PTL

=============================================================================
