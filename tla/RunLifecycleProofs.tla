-------------------------- MODULE RunLifecycleProofs --------------------------
(***************************************************************************)
(* Proofs about RunLifecycle for every number of requests, interventions,  *)
(* plan versions, failed turns and restarts, and every round limit: its    *)
(* rows stay sound, one agent at most is at work, a pause holds at every   *)
(* admission, and the plan that is implemented was approved.               *)
(*                                                                         *)
(* Each transaction of RunLedger has a lemma that says which rows it       *)
(* commits; what follows a turn, and each handler, is then shown to leave  *)
(* a Sound state, from these lemmas and without its definition.            *)
(***************************************************************************)
EXTENDS RunLifecycle, FiniteSetTheorems, TLAPS

-----------------------------------------------------------------------------
(* The rows.                                                               *)

AnyKey == PauseKeys \cup ResumeKeys
            \cup {"recovery", "autonomy", "none", "turn", "resume", "queue"}

AttemptType == [kind : {"none", "planning", "approval", "implementation", "intervention"},
                v : Nat, n : Nat, t : Nat]
RunType == [status : RunStatuses, kind : WaitKinds \cup {"none", "paused"}, paused : BOOLEAN,
            from : WaitKinds \cup {"none"}, version : Nat, limit : Nat]
SessionType == [status : SessionStatuses, provider : BOOLEAN]
InterventionType == [id : Guidance, target : Roles, effect : Effects \cup {"none"},
                     attempt : AttemptType, resolved : BOOLEAN,
                     status : {"waiting_for_boundary", "queued", "being_answered", "answered"}]
PlanType == [msgs : Nat, submitted : BOOLEAN, published : BOOLEAN, subs : Nat]
CommandType == [id : Replies, role : Roles, status : {"pending", "applied"}]
RevisionType == [version : Nat, iv : Nat]
ActionType == AnyKey \X {"pause", "resume", "extend"}

RowType == [feature : {"planning", "implementing"}, ivs : Seq(InterventionType),
            acts : SUBSET ActionType, cmds : SUBSET CommandType, revs : SUBSET RevisionType,
            plan : PlanType, run : RunType, att : [Roles -> AttemptType],
            work : [Roles -> AttemptType], sess : [Roles -> SessionType]]

PlaceType == [pc : Places, role : Roles, next : AttemptType, key : AnyKey]

\* A stored run: its own rules, and the wait a paused one returns to.
RunOK(r) ==
    /\ r \in RunType
    /\ RunValid(r)
    /\ r.limit >= RoundLimit
    /\ r.status = "waiting" /\ r.paused => r.from \in WaitKinds

\* The stored interventions: only the last may be unfinished.
IvsOK(s) ==
    /\ s \in Seq(InterventionType)
    /\ \A i \in DOMAIN s : InterventionValid(s[i])
    /\ \A i \in DOMAIN s : s[i].status # "answered" => i = Len(s)
    /\ \A i, j \in DOMAIN s : i # j => s[i].id # s[j].id

\* Each plan version after the first has an intervention of its own.
AskedFor(d) ==
    /\ IsFiniteSet(d.revs)
    /\ d.run.version = 1 + Cardinality(d.revs)
    /\ \A x, y \in d.revs : x # y => x.iv # y.iv /\ x.version # y.version
    /\ \A x \in d.revs : /\ x.version <= d.run.version
                         /\ x.iv \in DOMAIN d.ivs
                         /\ d.ivs[x.iv].resolved
                         /\ d.ivs[x.iv].effect = "replanning_required"

RowsOK(d) ==
    /\ d \in RowType
    /\ RunOK(d.run)
    /\ IvsOK(d.ivs)
    /\ AskedFor(d)
    /\ \A r \in Roles : d.att[r].kind = "intervention" => HasLatest(d)

-----------------------------------------------------------------------------
(* Who is at work.                                                         *)

Ended(d) == d.run.status \in RunEnds

Blocked(d) == d.run.status = "waiting" /\ "blocker" \in {d.run.kind, d.run.from}

LatestIs(d, s) == HasLatest(d) /\ d.ivs[Latest(d)].status = s

\* The session of r answers the intervention that was delivered last.
Answering(d, r) ==
    /\ LatestIs(d, "being_answered")
    /\ d.ivs[Latest(d)].target = r
    /\ d.ivs[Latest(d)].attempt = d.att[r]

\* What a restarted coordinator expects of the one session at work.
Expected(d, r) ==
    IF LatestIs(d, "being_answered") THEN Answering(d, r)
    ELSE IF d.feature = "planning"
    THEN d.att[r].kind \in {"planning", "approval"} /\ d.att[r].v = d.run.version
    ELSE d.att[r].kind = "implementation" /\ r = "lead"

\* An intervention keeps its run paused, and its delivery keeps it at rest,
\* unless a resume ran past it (o).
InterventionsHold(d, o) ==
    \/ o \/ Ended(d)
    \/ /\ \A i \in DOMAIN d.ivs : d.ivs[i].status # "answered" => d.run.paused
       /\ LatestIs(d, "queued") \/ LatestIs(d, "being_answered") => AtRestPaused(d)

\* One session at most is at work, and it is the one the goroutine is on.
OneAtWork(d, l) ==
    /\ \A r, s \in Active(d) : r = s
    /\ l.pc \in {"turn", "reattach", "release"} => Active(d) \subseteq {l.role}
    /\ l.pc \in {"chain", "publish", "implement"} => Active(d) = {}
    /\ Ended(d) => l.pc \in {"idle", "release"} /\ Active(d) = {}

\* What the goroutine is about to start is what the rows call for.
RightPlace(d, l) ==
    /\ l.pc = "chain" => /\ l.next.kind \in {"planning", "approval"}
                         /\ l.next.v = d.run.version
    /\ l.pc = "implement" => l.next.kind = "implementation"
    /\ l.pc = "replan" => /\ l.next.kind = "planning"
                          /\ l.next.v = d.run.version + 1
                          /\ HasLatest(d)

\* The session at work has the turn the rows speak of, and while it works the
\* run waits only for the user or for the answer to an intervention.
WorkIsExpected(d, l, o) ==
    \/ o
    \/ /\ \A r \in Active(d) : /\ Expected(d, r)
                               /\ d.run.status = "waiting" => Blocked(d) \/ Answering(d, r)
       /\ l.pc = "reattach" => Expected(d, l.role)

\* A session at work is observed, or held for the user.
Watched(d, l) == \A r \in Active(d) : l.pc \in {"turn", "reattach"} \/ Blocked(d)

Sound(d, l, o) ==
    /\ RowsOK(d)
    /\ l \in PlaceType
    /\ InterventionsHold(d, o)
    /\ OneAtWork(d, l)
    /\ RightPlace(d, l)
    /\ WorkIsExpected(d, l, o)

\* The memory of the coordinator, and what the workers have said.
MemoryOK ==
    /\ outcome \in [Roles -> Outcomes]
    /\ known \subseteq [att : AttemptType, out : Outcomes]
    /\ calls \subseteq Callers
    /\ resuming \in [ResumeKeys -> {"idle", "plain"} \cup Effects]
    /\ checking \in BOOLEAN /\ down \in BOOLEAN /\ overrun \in BOOLEAN
    /\ \A k \in ResumeKeys :
          resuming[k] \in {"guidance_applied", "replanning_required"} => HasLatest(db)
    /\ checking => db.run.status = "running" /\ live.pc = "idle"
    /\ down => live.pc = "idle" /\ ~checking

IInv ==
    /\ Sound(db, live, overrun)
    /\ MemoryOK
    /\ Watched(db, live) \/ down \/ checking \/ overrun

-----------------------------------------------------------------------------
(* What a transaction leaves alone.                                        *)

\* The rows that say who works, on what.
Beside(d, e) == /\ e.feature = d.feature
                /\ e.att = d.att
                /\ e.sess = d.sess
                /\ e.revs = d.revs

\* The same interventions, of which some may have reached their boundary.
SameIvs(s, t) ==
    /\ DOMAIN t = DOMAIN s
    /\ Len(t) = Len(s)
    /\ \A i \in DOMAIN s :
          /\ t[i].id = s[i].id
          /\ t[i].target = s[i].target
          /\ t[i].effect = s[i].effect
          /\ t[i].attempt = s[i].attempt
          /\ t[i].resolved = s[i].resolved
          /\ \/ t[i].status = s[i].status
             \/ s[i].status = "waiting_for_boundary" /\ t[i].status = "queued"

-----------------------------------------------------------------------------
(* The transactions of the ledger, one lemma each: the rows they commit.   *)

\* The rows of sound rows have their types.
LEMMA RowFields ==
    ASSUME NEW d, RowsOK(d)
    PROVE  /\ d.run \in RunType
           /\ d.ivs \in Seq(InterventionType)
           /\ d.att \in [Roles -> AttemptType]
           /\ d.sess \in [Roles -> SessionType]
           /\ d.revs \in SUBSET RevisionType
           /\ d.plan \in PlanType
           /\ d.feature \in {"planning", "implementing"}
BY DEF RowsOK, RowType

\* Queued leaves everything but the statuses alone.
LEMMA QueuedFields ==
    ASSUME NEW s, IvsOK(s)
    PROVE  IvsOK(Queued(s)) /\ SameIvs(s, Queued(s))
<1> DEFINE t == Queued(s)
<1>1. s \in Seq(InterventionType) BY DEF IvsOK
<1>2. DOMAIN t = DOMAIN s BY DEF Queued
<1>3. ASSUME NEW i \in DOMAIN s
      PROVE  /\ t[i] \in InterventionType
             /\ t[i].id = s[i].id /\ t[i].target = s[i].target
             /\ t[i].effect = s[i].effect /\ t[i].attempt = s[i].attempt
             /\ t[i].resolved = s[i].resolved
             /\ t[i].status = IF s[i].status = "waiting_for_boundary" THEN "queued"
                              ELSE s[i].status
  <2>1. s[i] \in InterventionType BY <1>1
  <2>2. t[i] = IF s[i].status = "waiting_for_boundary"
               THEN [s[i] EXCEPT !.status = "queued"] ELSE s[i]
    BY DEF Queued
  <2> HIDE DEF t
  <2>3. QED BY <2>1, <2>2 DEF InterventionType
<1> HIDE DEF t
<1>4. Len(t) = Len(s) /\ t \in Seq(InterventionType)
  <2>1. t = [i \in 1..Len(s) |-> t[i]] BY <1>1, <1>2 DEF t, Queued
  <2>2. \A i \in 1..Len(s) : t[i] \in InterventionType BY <1>1, <1>3
  <2>3. QED BY <1>1, <2>1, <2>2
<1>5. \A i \in DOMAIN t : InterventionValid(t[i])
  <2>1. SUFFICES ASSUME NEW i \in DOMAIN s PROVE InterventionValid(t[i]) BY <1>2
  <2>2. InterventionValid(s[i]) BY DEF IvsOK
  <2>3. QED BY <1>3, <2>2 DEF InterventionValid, Effects
<1>6. SameIvs(s, t) BY <1>2, <1>3, <1>4 DEF SameIvs
<1>7. IvsOK(t)
  <2>1. \A i \in DOMAIN t : t[i].status # "answered" => i = Len(t)
    BY <1>2, <1>3, <1>4 DEF IvsOK
  <2>2. \A i, j \in DOMAIN t : i # j => t[i].id # t[j].id BY <1>2, <1>3 DEF IvsOK
  <2>3. QED BY <1>4, <1>5, <2>1, <2>2 DEF IvsOK
<1>8. QED BY <1>6, <1>7 DEF t

LEMMA SameIsSame == ASSUME NEW s PROVE SameIvs(s, s)
BY DEF SameIvs

\* The plan versions are still asked for when neither the version nor the
\* answers change.
LEMMA AskedForStays ==
    ASSUME NEW d, AskedFor(d), NEW e, e.revs = d.revs,
           e.run.version = d.run.version, SameIvs(d.ivs, e.ivs)
    PROVE  AskedFor(e)
BY DEF AskedFor, SameIvs

LEMMA SameHasLatest ==
    ASSUME NEW d, RowsOK(d), NEW e, SameIvs(d.ivs, e.ivs), e.ivs \in Seq(InterventionType)
    PROVE  /\ HasLatest(d) <=> HasLatest(e)
           /\ Latest(e) = Latest(d)
           /\ HasLatest(d) => Latest(d) \in DOMAIN d.ivs
<1>1. d.ivs \in Seq(InterventionType) BY RowFields
<1>2. QED BY <1>1 DEF SameIvs, HasLatest, Latest

\* A run that waits: the kind it waits for, and its interventions queued.
LEMMA WaitRun ==
    ASSUME NEW d, RowsOK(d), NEW kind \in WaitKinds, NEW e, e = waitRun(d, kind)
    PROVE  /\ RowsOK(e) /\ Beside(d, e) /\ SameIvs(d.ivs, e.ivs)
           /\ e.run.paused = d.run.paused /\ e.run.version = d.run.version
           /\ Ended(d) => e = d
           /\ ~Ended(d) => e.run.status = "waiting"
           /\ kind = "blocker" => Ended(e) \/ Blocked(e)
<1>1. CASE Ended(d)
  <2>1. e = d BY <1>1 DEF waitRun, Ended
  <2>2. QED BY <1>1, <2>1, SameIsSame DEF Beside
<1>2. CASE ~Ended(d)
  <2> DEFINE r == d.run
             moved == IF r.paused
                      THEN [r EXCEPT !.status = "waiting", !.kind = "paused", !.from = kind]
                      ELSE [r EXCEPT !.status = "waiting", !.kind = kind, !.from = "none"]
  <2>1. e = [d EXCEPT !.run = moved, !.ivs = IF moved.paused THEN Queued(@) ELSE @]
    BY <1>2 DEF waitRun, Ended, TransitionRun, RunEnds
  <2>2. d \in RowType /\ r \in RunType /\ RunOK(r) BY DEF RowsOK, RowType
  <2>3. /\ moved \in RunType /\ moved.status = "waiting" /\ moved.paused = r.paused
        /\ moved.version = r.version /\ moved.limit = r.limit
        /\ moved.kind = (IF r.paused THEN "paused" ELSE kind)
        /\ moved.from = (IF r.paused THEN kind ELSE "none")
    BY <2>2 DEF RunType, RunStatuses, WaitKinds
  <2> HIDE DEF moved
  <2>4. RunOK(moved)
    BY <2>2, <2>3 DEF RunOK, RunValid, RunStatuses, WaitKinds, RunType
  <2> DEFINE ivs == IF moved.paused THEN Queued(d.ivs) ELSE d.ivs
  <2>5. IvsOK(ivs) /\ SameIvs(d.ivs, ivs)
    BY QueuedFields, SameIsSame DEF RowsOK
  <2> HIDE DEF ivs
  <2>6. ivs \in Seq(InterventionType) BY <2>5 DEF IvsOK
  <2>7. e = [d EXCEPT !.run = moved, !.ivs = ivs] BY <2>1, <2>2 DEF ivs, RowType
  <2>8. /\ e \in RowType /\ e.run = moved /\ e.ivs = ivs /\ Beside(d, e)
    BY <2>2, <2>3, <2>6, <2>7 DEF RowType, Beside
  <2>9. AskedFor(e) BY <2>3, <2>5, <2>8, AskedForStays DEF Beside, RowsOK
  <2>10. \A x \in Roles : e.att[x].kind = "intervention" => HasLatest(e)
    BY <2>5, <2>6, <2>8, SameHasLatest DEF Beside, RowsOK
  <2>11. RowsOK(e) BY <2>4, <2>5, <2>8, <2>9, <2>10 DEF RowsOK
  <2>12. QED BY <1>2, <2>3, <2>5, <2>8, <2>11 DEF Ended, Blocked, RunEnds
<1>3. QED BY <1>1, <1>2

\* Rows whose run and interventions are sound again are sound.
LEMMA RowsKept ==
    ASSUME NEW d, RowsOK(d), NEW e, e \in RowType, RunOK(e.run),
           e.run.version = d.run.version, e.revs = d.revs,
           SameIvs(d.ivs, e.ivs), IvsOK(e.ivs),
           \A r \in Roles : e.att[r].kind = "intervention" => HasLatest(d)
    PROVE  RowsOK(e)
<1>1. AskedFor(e) BY AskedForStays DEF RowsOK
<1>2. e.ivs \in Seq(InterventionType) BY DEF IvsOK
<1>3. \A r \in Roles : e.att[r].kind = "intervention" => HasLatest(e)
  BY <1>2, SameHasLatest
<1>4. QED BY <1>1, <1>3 DEF RowsOK

\* Two sets of rows that differ in neither the run, the interventions, the
\* sessions, their attempts, the plan versions nor the feature.
SameCore(d, e) == e.run = d.run /\ e.ivs = d.ivs /\ Beside(d, e)

LEMMA CoreKept ==
    ASSUME NEW d, RowsOK(d), NEW e, e \in RowType, SameCore(d, e)
    PROVE  RowsOK(e)
BY RowsKept, SameIsSame DEF SameCore, Beside, RowsOK

\* The rows with another session of r.
WithSession(d, r, s) == [d EXCEPT !.sess = [d.sess EXCEPT ![r] = s]]

\* The session of r takes another status.
LEMMA SessionMoves ==
    ASSUME NEW d, RowsOK(d), NEW r \in Roles, NEW s \in SessionType,
           NEW e, e = WithSession(d, r, s)
    PROVE  /\ RowsOK(e)
           /\ e.run = d.run /\ e.ivs = d.ivs /\ e.att = d.att
           /\ e.feature = d.feature /\ e.revs = d.revs
           /\ Active(e) = IF s.status \in {"absent", "waiting"} \cup SessionEnds
                          THEN Active(d) \ {r} ELSE Active(d) \cup {r}
<1>1. d \in RowType /\ d.sess \in [Roles -> SessionType] BY DEF RowsOK, RowType
<1>2. /\ e \in RowType /\ e.run = d.run /\ e.ivs = d.ivs /\ e.att = d.att
      /\ e.feature = d.feature /\ e.revs = d.revs
      /\ e.sess = [d.sess EXCEPT ![r] = s]
  BY <1>1 DEF RowType, WithSession
<1>3. RowsOK(e) BY <1>2, RowsKept, SameIsSame DEF RowsOK
<1>4. Active(e) = IF s.status \in {"absent", "waiting"} \cup SessionEnds
                  THEN Active(d) \ {r} ELSE Active(d) \cup {r}
  BY <1>1, <1>2 DEF Active
<1>5. QED BY <1>2, <1>3, <1>4

LEMMA SessionStands ==
    ASSUME NEW d, RowsOK(d), NEW r \in Roles, NEW to \in SessionStatuses
    PROVE  /\ \E s \in SessionType : s.status = to /\ TransitionSession(d, r, to) = WithSession(d, r, s)
           /\ \E s \in SessionType : s.status = to /\ WithStatus(d, r, to) = WithSession(d, r, s)
<1>1. d \in RowType /\ d.sess \in [Roles -> SessionType] BY DEF RowsOK, RowType
<1> DEFINE stood == [status |-> to, provider |-> TRUE]
           moved == [d.sess[r] EXCEPT !.status = to]
<1>2. stood \in SessionType /\ stood.status = to BY DEF SessionType
<1>3. TransitionSession(d, r, to) = WithSession(d, r, stood)
  BY <1>1 DEF TransitionSession, RowType, WithSession
<1>4. d.sess[r] \in SessionType BY <1>1
<1>5. moved \in SessionType /\ moved.status = to BY <1>4 DEF SessionType
<1>6. WithStatus(d, r, to) = WithSession(d, r, moved)
  BY <1>1 DEF WithStatus, RowType, WithSession
<1> HIDE DEF stood, moved
<1>7. QED BY <1>2, <1>3, <1>5, <1>6

\* The run works again: nothing it waited for is left, and r has a turn.
Works(d, e, r, a) ==
    /\ RowsOK(e)
    /\ e.run.status = "running" /\ ~e.run.paused /\ e.run.version = d.run.version
    /\ e.ivs = d.ivs /\ e.feature = d.feature /\ e.revs = d.revs
    /\ e.att = [d.att EXCEPT ![r] = a]
    /\ Active(e) = Active(d) \cup {r}

\* A turn begins: of a conversation at rest, or with a session of its own.
LEMMA TurnBegins ==
    ASSUME NEW d, RowsOK(d), ~d.run.paused, NEW r \in Roles, NEW a \in AttemptType,
           a.kind # "intervention", NEW s \in SessionType,
           s.status \in {"running", "starting"}, NEW cmds \in SUBSET CommandType, NEW e,
           e = [d EXCEPT !.att = [d.att EXCEPT ![r] = a],
                         !.sess = [d.sess EXCEPT ![r] = s],
                         !.run = [d.run EXCEPT !.status = "running", !.kind = "none", !.from = "none"],
                         !.cmds = cmds]
    PROVE  Works(d, e, r, a)
<1> DEFINE run == [d.run EXCEPT !.status = "running", !.kind = "none", !.from = "none"]
<1>1. /\ d \in RowType /\ d.sess \in [Roles -> SessionType] /\ RunOK(d.run)
      /\ d.att \in [Roles -> AttemptType] /\ d.run \in RunType
  BY DEF RowsOK, RowType
<1>2. /\ run \in RunType /\ run.status = "running" /\ ~run.paused /\ run.kind = "none"
      /\ run.from = "none" /\ run.version = d.run.version /\ run.limit = d.run.limit
  BY <1>1 DEF RunType, RunStatuses
<1> HIDE DEF run
<1>3. /\ e \in RowType /\ e.run = run /\ e.ivs = d.ivs
      /\ e.feature = d.feature /\ e.revs = d.revs
      /\ e.att = [d.att EXCEPT ![r] = a]
      /\ e.sess = [d.sess EXCEPT ![r] = s]
  BY <1>1, <1>2 DEF RowType, run
<1>4. RunOK(run) BY <1>1, <1>2 DEF RunOK, RunValid, RunStatuses
<1>5. \A x \in Roles : e.att[x].kind = "intervention" => HasLatest(d)
  BY <1>1, <1>3 DEF RowsOK
<1>6. RowsOK(e)
  <2>1. IvsOK(d.ivs) BY DEF RowsOK
  <2>2. SameIvs(d.ivs, e.ivs) BY <1>3, SameIsSame
  <2>3. QED BY <1>2, <1>3, <1>4, <1>5, <2>1, <2>2, RowsKept
<1>7. Active(e) = Active(d) \cup {r} BY <1>1, <1>3 DEF Active, SessionEnds
<1>8. QED BY <1>2, <1>3, <1>6, <1>7 DEF Works

LEMMA TurnFields ==
    ASSUME NEW d, RowsOK(d), ~d.run.paused, NEW r \in Roles, NEW a \in AttemptType,
           a.kind # "intervention"
    PROVE  /\ Works(d, BeginAutonomousTurn(d, r, a), r, a)
           /\ Works(d, BeginNewSessionTurn(d, r, a), r, a)
           /\ \A id \in Replies : Works(d, BeginWorkerTurn(d, id, r, a), r, a)
<1>1. /\ d \in RowType /\ d.sess \in [Roles -> SessionType] /\ d.cmds \in SUBSET CommandType
      /\ d.att \in [Roles -> AttemptType] /\ d.run \in RunType
  BY DEF RowsOK, RowType
<1> DEFINE run == [d.run EXCEPT !.status = "running", !.kind = "none", !.from = "none"]
           running == [d.sess[r] EXCEPT !.status = "running"]
           starting == [status |-> "starting", provider |-> FALSE]
           Begin(s, cmds) == [d EXCEPT !.att = [d.att EXCEPT ![r] = a],
                                       !.sess = [d.sess EXCEPT ![r] = s],
                                       !.run = run, !.cmds = cmds]
<1>2. running \in SessionType /\ running.status = "running"
  BY <1>1 DEF SessionType, SessionStatuses
<1>3. starting \in SessionType /\ starting.status = "starting" BY DEF SessionType, SessionStatuses
<1>4. BeginAutonomousTurn(d, r, a) = Begin(running, d.cmds)
  BY <1>1 DEF BeginAutonomousTurn, Turned, RowType
<1>5. BeginNewSessionTurn(d, r, a) = Begin(starting, d.cmds)
  BY <1>1 DEF BeginNewSessionTurn, RowType
<1>6. ASSUME NEW id \in Replies
      PROVE  Works(d, BeginWorkerTurn(d, id, r, a), r, a)
  <2> DEFINE cmds == d.cmds \cup {[id |-> id, role |-> r, status |-> "pending"]}
  <2>1. cmds \in SUBSET CommandType BY <1>1 DEF CommandType
  <2>2. BeginWorkerTurn(d, id, r, a) = Begin(running, cmds)
    BY <1>1 DEF BeginWorkerTurn, Turned, RowType
  <2>3. QED BY <1>2, <2>1, <2>2, TurnBegins
<1>7. Works(d, BeginAutonomousTurn(d, r, a), r, a) BY <1>1, <1>2, <1>4, TurnBegins
<1>8. Works(d, BeginNewSessionTurn(d, r, a), r, a) BY <1>1, <1>3, <1>5, TurnBegins
<1>9. QED BY <1>6, <1>7, <1>8

\* The rows with another run and other applied actions.
WithRunAnd(d, run, acts) == [d EXCEPT !.run = run, !.acts = acts]

\* The run alone changes, to another sound one of the same plan version.
LEMMA RunMoves ==
    ASSUME NEW d, RowsOK(d), NEW run, RunOK(run), run.version = d.run.version,
           NEW acts \in SUBSET ActionType,
           NEW e, e = WithRunAnd(d, run, acts)
    PROVE  RowsOK(e) /\ Beside(d, e) /\ e.ivs = d.ivs /\ e.run = run
<1>1. d \in RowType /\ run \in RunType BY DEF RowsOK, RunOK
<1>2. e \in RowType /\ Beside(d, e) /\ e.ivs = d.ivs /\ e.run = run
  BY <1>1 DEF RowType, Beside, WithRunAnd
<1>3. IvsOK(d.ivs) /\ SameIvs(d.ivs, e.ivs) BY <1>2, SameIsSame DEF RowsOK
<1>4. \A r \in Roles : e.att[r].kind = "intervention" => HasLatest(d)
  BY <1>2 DEF RowsOK, Beside
<1>5. RowsOK(e) BY <1>2, <1>3, <1>4, RowsKept DEF Beside
<1>6. QED BY <1>2, <1>5

LEMMA ActFields ==
    ASSUME NEW d, RowsOK(d), NEW k \in AnyKey, NEW what \in {"pause", "resume", "extend"}
    PROVE  /\ d.acts \in SUBSET ActionType
           /\ d.acts \cup {<<k, what>>} \in SUBSET ActionType
BY DEF RowsOK, RowType, ActionType

LEMMA RunStops ==
    ASSUME NEW d, RowsOK(d), NEW e, e = TransitionRun(d, "stopped", "none")
    PROVE  RowsOK(e) /\ Beside(d, e) /\ e.ivs = d.ivs /\ Ended(e) /\ e.run.version = d.run.version
<1> DEFINE run == [d.run EXCEPT !.status = "stopped", !.paused = FALSE, !.kind = "none", !.from = "none"]
<1>1. d \in RowType /\ d.run \in RunType /\ RunOK(d.run) /\ d.acts \in SUBSET ActionType
  BY DEF RowsOK, RowType
<1>2. /\ run \in RunType /\ run.status = "stopped" /\ ~run.paused /\ run.kind = "none"
      /\ run.from = "none" /\ run.version = d.run.version /\ run.limit = d.run.limit
  BY <1>1 DEF RunType, RunStatuses, RunEnds
<1> HIDE DEF run
<1>3. RunOK(run) BY <1>1, <1>2 DEF RunOK, RunValid, RunStatuses, RunEnds
<1>4. e = WithRunAnd(d, run, d.acts)
  BY <1>1 DEF TransitionRun, RunEnds, RowType, run, WithRunAnd
<1>5. QED BY <1>1, <1>2, <1>3, <1>4, RunMoves DEF Ended, RunEnds

LEMMA RunGoesOn ==
    ASSUME NEW d, RowsOK(d), ~d.run.paused, NEW e, e = TransitionRun(d, "running", "none")
    PROVE  /\ RowsOK(e) /\ Beside(d, e) /\ e.ivs = d.ivs
           /\ e.run.status = "running" /\ ~e.run.paused /\ e.run.version = d.run.version
<1> DEFINE run == [d.run EXCEPT !.status = "running", !.kind = "none", !.from = "none"]
<1>1. d \in RowType /\ d.run \in RunType /\ RunOK(d.run) /\ d.acts \in SUBSET ActionType
  BY DEF RowsOK, RowType
<1>2. /\ run \in RunType /\ run.status = "running" /\ ~run.paused /\ run.kind = "none"
      /\ run.from = "none" /\ run.version = d.run.version /\ run.limit = d.run.limit
  BY <1>1 DEF RunType, RunStatuses, RunEnds
<1> HIDE DEF run
<1>3. RunOK(run) BY <1>1, <1>2 DEF RunOK, RunValid, RunStatuses, RunEnds
<1>4. e = WithRunAnd(d, run, d.acts)
  BY <1>1 DEF TransitionRun, RunEnds, RowType, run, WithRunAnd
<1>5. QED BY <1>1, <1>2, <1>3, <1>4, RunMoves

\* A paused run remembers what it waited for.
LEMMA PausedRun ==
    ASSUME NEW d, RowsOK(d)
    PROVE  LET run == Paused(d.run) IN
           /\ RunOK(run) /\ run.paused /\ run.status = d.run.status
           /\ run.version = d.run.version
           /\ Blocked(d) => "blocker" \in {run.kind, run.from}
<1> DEFINE run == Paused(d.run)
<1>1. d.run \in RunType /\ RunOK(d.run) BY DEF RowsOK, RowType
<1>2. CASE d.run.paused BY <1>1, <1>2 DEF Paused, Blocked
<1>3. CASE ~d.run.paused
  <2> DEFINE from == IF d.run.status = "waiting" THEN d.run.kind ELSE d.run.from
  <2>1. d.run.status = "waiting" => d.run.kind \in WaitKinds /\ d.run.from = "none"
    BY <1>1, <1>3 DEF RunOK, RunValid, RunType, WaitKinds
  <2>2. from \in WaitKinds \cup {"none"} BY <1>1, <2>1 DEF RunType
  <2> HIDE DEF from
  <2>3. run = [d.run EXCEPT !.paused = TRUE, !.kind = "paused", !.from = from]
    BY <1>1, <1>3 DEF Paused, RunType, from
  <2>4. /\ run \in RunType /\ run.paused /\ run.kind = "paused" /\ run.from = from
        /\ run.status = d.run.status /\ run.version = d.run.version /\ run.limit = d.run.limit
    BY <1>1, <2>2, <2>3 DEF RunType
  <2> HIDE DEF run
  <2>5. RunOK(run) BY <1>1, <2>1, <2>2, <2>4 DEF RunOK, RunValid, from, WaitKinds
  <2>6. Blocked(d) => run.from = "blocker" BY <2>1, <2>4 DEF Blocked, from
  <2>7. QED BY <2>4, <2>5, <2>6 DEF run
<1>4. QED BY <1>2, <1>3

\* An unpaused run waits for what it waited for before.
LEMMA UnpausedRun ==
    ASSUME NEW d, RowsOK(d), d.run.paused
    PROVE  LET run == Unpaused(d.run) IN
           /\ RunOK(run) /\ ~run.paused /\ run.status = d.run.status
           /\ run.version = d.run.version
           /\ Blocked(d) => run.kind = "blocker"
<1> DEFINE run == Unpaused(d.run)
           kind == IF d.run.status # "waiting" THEN "none"
                   ELSE IF d.run.from = "none" THEN "blocker" ELSE d.run.from
<1>1. d.run \in RunType /\ RunOK(d.run) BY DEF RowsOK, RowType
<1>2. run = [d.run EXCEPT !.paused = FALSE, !.from = "none", !.kind = kind]
  BY <1>1 DEF Unpaused, RunType
<1>3. kind \in WaitKinds \cup {"none"} BY <1>1 DEF RunType, WaitKinds
<1>4. d.run.status = "waiting" => kind = d.run.from /\ kind \in WaitKinds
  BY <1>1 DEF RunOK, WaitKinds
<1>5. d.run.status # "waiting" => kind = "none" OBVIOUS
<1> HIDE DEF kind
<1>6. /\ run \in RunType /\ ~run.paused /\ run.kind = kind /\ run.from = "none"
      /\ run.status = d.run.status /\ run.version = d.run.version /\ run.limit = d.run.limit
  BY <1>1, <1>2, <1>3 DEF RunType
<1> HIDE DEF run
<1>7. RunOK(run) BY <1>1, <1>4, <1>5, <1>6 DEF RunOK, RunValid, WaitKinds
<1>8. d.run.kind = "paused" BY <1>1 DEF RunOK, RunValid
<1>9. Blocked(d) => run.kind = "blocker" BY <1>4, <1>6, <1>8 DEF Blocked
<1>10. QED BY <1>6, <1>7, <1>9 DEF run

LEMMA PauseFields ==
    ASSUME NEW d, RowsOK(d), NEW k \in PauseKeys, NEW e, e = ApplyPause(d, k)
    PROVE  /\ RowsOK(e) /\ Beside(d, e) /\ e.ivs = d.ivs
           /\ e.run.paused /\ e.run.status = d.run.status /\ e.run.version = d.run.version
           /\ Blocked(d) => Blocked(e)
<1> DEFINE run == Paused(d.run)
           acts == d.acts \cup {<<k, "pause">>}
<1>1. d \in RowType BY DEF RowsOK
<1>2. acts \in SUBSET ActionType BY ActFields DEF AnyKey
<1>3. e = WithRunAnd(d, run, acts) BY <1>1 DEF ApplyPause, RowType, WithRunAnd
<1>4. /\ RunOK(run) /\ run.paused /\ run.status = d.run.status
      /\ run.version = d.run.version
      /\ Blocked(d) => "blocker" \in {run.kind, run.from}
  BY PausedRun
<1> HIDE DEF run, acts
<1>5. RowsOK(e) /\ Beside(d, e) /\ e.ivs = d.ivs /\ e.run = run
  BY <1>2, <1>3, <1>4, RunMoves
<1>6. QED BY <1>4, <1>5 DEF Blocked

LEMMA ResumeFields ==
    ASSUME NEW d, RowsOK(d), NEW k \in ResumeKeys, NEW e, e = ApplyResume(d, k)
    PROVE  /\ RowsOK(e) /\ Beside(d, e) /\ e.ivs = d.ivs
           /\ ~e.run.paused /\ e.run.status = d.run.status /\ e.run.version = d.run.version
           /\ Blocked(d) => Blocked(e)
<1> DEFINE run == IF d.run.paused THEN Unpaused(d.run) ELSE d.run
           acts == d.acts \cup {<<k, "resume">>}
<1>1. d \in RowType /\ RunOK(d.run) BY DEF RowsOK
<1>2. acts \in SUBSET ActionType BY ActFields DEF AnyKey
<1>3. e = WithRunAnd(d, run, acts) BY <1>1 DEF ApplyResume, RowType, WithRunAnd
<1>4. /\ RunOK(run) /\ ~run.paused /\ run.status = d.run.status
      /\ run.version = d.run.version
      /\ Blocked(d) => "blocker" \in {run.kind, run.from}
  BY <1>1, UnpausedRun DEF Blocked, RunOK, RunType
<1> HIDE DEF run, acts
<1>5. RowsOK(e) /\ Beside(d, e) /\ e.ivs = d.ivs /\ e.run = run
  BY <1>2, <1>3, <1>4, RunMoves
<1>6. QED BY <1>4, <1>5 DEF Blocked

\* The last intervention is replaced by a valid one of the same id.
LEMMA LastReplaced ==
    ASSUME NEW s, IvsOK(s), s # <<>>, NEW iv \in InterventionType, InterventionValid(iv),
           iv.id = s[Len(s)].id, NEW t, t = [s EXCEPT ![Len(s)] = iv]
    PROVE  /\ IvsOK(t) /\ t # <<>> /\ DOMAIN t = DOMAIN s /\ Len(t) = Len(s)
           /\ t[Len(s)] = iv
           /\ \A i \in DOMAIN s : i # Len(s) => t[i] = s[i] /\ s[i].status = "answered"
<1>1. s \in Seq(InterventionType) /\ Len(s) \in DOMAIN s BY DEF IvsOK
<1>2. /\ t \in Seq(InterventionType) /\ DOMAIN t = DOMAIN s /\ Len(t) = Len(s)
      /\ t[Len(s)] = iv
      /\ \A i \in DOMAIN s : i # Len(s) => t[i] = s[i]
  BY <1>1
<1>3. t # <<>> BY <1>1, <1>2
<1>4. \A i \in DOMAIN s : i # Len(s) => s[i].status = "answered" BY DEF IvsOK
<1>5. \A i \in DOMAIN t : InterventionValid(t[i])
  <2>1. SUFFICES ASSUME NEW i \in DOMAIN s PROVE InterventionValid(t[i]) BY <1>2
  <2>2. CASE i = Len(s) BY <1>2, <2>2
  <2>3. CASE i # Len(s) BY <1>2, <2>3 DEF IvsOK
  <2>4. QED BY <2>2, <2>3
<1>6. \A i \in DOMAIN t : t[i].status # "answered" => i = Len(t) BY <1>2, <1>4
<1>7. \A i, j \in DOMAIN t : i # j => t[i].id # t[j].id
  <2>1. \A i \in DOMAIN s : t[i].id = s[i].id BY <1>2
  <2>2. QED BY <1>2, <2>1 DEF IvsOK
<1>8. QED BY <1>2, <1>3, <1>4, <1>5, <1>6, <1>7 DEF IvsOK

\* Resolved answers are what the plan versions were asked by.
LEMMA StillAskedFor ==
    ASSUME NEW d, AskedFor(d), NEW e, e.revs = d.revs,
           e.run.version = d.run.version, DOMAIN d.ivs \subseteq DOMAIN e.ivs,
           \A i \in DOMAIN d.ivs : d.ivs[i].resolved =>
              e.ivs[i].resolved /\ e.ivs[i].effect = d.ivs[i].effect
    PROVE  AskedFor(e)
BY DEF AskedFor

\* Rows of which the run and the last intervention changed.
LastMoves(d, e, iv) ==
    /\ RowsOK(e) /\ HasLatest(e)
    /\ Latest(e) = Latest(d) /\ DOMAIN e.ivs = DOMAIN d.ivs
    /\ e.ivs[Latest(e)] = iv
    /\ \A i \in DOMAIN d.ivs : i # Latest(d) => e.ivs[i].status = "answered"
    /\ e.feature = d.feature /\ e.revs = d.revs
    /\ e.run.version = d.run.version

LEMMA LastIsMoved ==
    ASSUME NEW d, RowsOK(d), HasLatest(d), NEW iv \in InterventionType, InterventionValid(iv),
           iv.id = d.ivs[Latest(d)].id,
           d.ivs[Latest(d)].resolved => iv.resolved /\ iv.effect = d.ivs[Latest(d)].effect,
           NEW e, e \in RowType, RunOK(e.run), e.run.version = d.run.version,
           e.revs = d.revs, e.feature = d.feature,
           e.ivs = [d.ivs EXCEPT ![Latest(d)] = iv]
    PROVE  LastMoves(d, e, iv)
<1>1. IvsOK(d.ivs) /\ d.ivs # <<>> /\ AskedFor(d) BY DEF RowsOK, HasLatest
<1>2. /\ IvsOK(e.ivs) /\ e.ivs # <<>> /\ DOMAIN e.ivs = DOMAIN d.ivs
      /\ Len(e.ivs) = Len(d.ivs) /\ e.ivs[Len(d.ivs)] = iv
      /\ \A i \in DOMAIN d.ivs : i # Len(d.ivs) => e.ivs[i] = d.ivs[i] /\ d.ivs[i].status = "answered"
  BY <1>1, LastReplaced DEF Latest
<1>3. AskedFor(e)
  <2>1. \A i \in DOMAIN d.ivs : d.ivs[i].resolved =>
              e.ivs[i].resolved /\ e.ivs[i].effect = d.ivs[i].effect
    BY <1>2 DEF Latest
  <2>2. QED BY <1>1, <1>2, <2>1, StillAskedFor
<1>4. RowsOK(e) BY <1>2, <1>3 DEF RowsOK, HasLatest
<1>5. QED BY <1>2, <1>4 DEF LastMoves, HasLatest, Latest

LEMMA LatestFields ==
    ASSUME NEW d, RowsOK(d), HasLatest(d)
    PROVE  /\ Latest(d) \in DOMAIN d.ivs /\ Latest(d) \in Nat
           /\ d.ivs[Latest(d)] \in InterventionType
           /\ InterventionValid(d.ivs[Latest(d)])
BY DEF RowsOK, IvsOK, HasLatest, Latest

\* An intervention is delivered.
LEMMA InterventionBegins ==
    ASSUME NEW d, RowsOK(d), HasLatest(d), MayBeginInterventionTurn(d, Latest(d)),
           NEW a \in AttemptType, a.kind = "intervention",
           NEW e, e = BeginInterventionTurn(d, Latest(d), a)
    PROVE  LET r == d.ivs[Latest(d)].target IN
           /\ r \in Roles
           /\ RowsOK(e) /\ e.run = d.run /\ e.feature = d.feature
           /\ e.att = [d.att EXCEPT ![r] = a]
           /\ Active(e) = {r} /\ LatestIs(e, "being_answered") /\ Answering(e, r)
           /\ \A i \in DOMAIN e.ivs : i # Latest(e) => e.ivs[i].status = "answered"
<1> DEFINE i == Latest(d)
           r == d.ivs[i].target
           iv == [d.ivs[i] EXCEPT !.status = "being_answered", !.attempt = a]
           s == [d.sess[r] EXCEPT !.status = "running"]
<1>1. /\ d \in RowType /\ d.sess \in [Roles -> SessionType] /\ RunOK(d.run)
      /\ d.att \in [Roles -> AttemptType] /\ d.ivs \in Seq(InterventionType)
  BY DEF RowsOK, RowType
<1>2. i \in DOMAIN d.ivs /\ d.ivs[i] \in InterventionType /\ InterventionValid(d.ivs[i])
  BY LatestFields
<1>3. d.ivs[i].status = "queued" /\ Active(d) = {} BY DEF MayBeginInterventionTurn
<1>4. r \in Roles BY <1>2 DEF InterventionType
<1>5. /\ iv \in InterventionType /\ iv.status = "being_answered" /\ iv.attempt = a
      /\ iv.id = d.ivs[i].id /\ iv.target = r /\ iv.effect = d.ivs[i].effect
      /\ iv.resolved = d.ivs[i].resolved
  BY <1>2 DEF InterventionType
<1>6. ~d.ivs[i].resolved /\ d.ivs[i].effect \notin Effects /\ a # NoAttempt
  BY <1>2, <1>3 DEF InterventionValid, NoAttempt
<1>7. InterventionValid(iv) BY <1>5, <1>6 DEF InterventionValid
<1>8. s \in SessionType /\ s.status = "running" BY <1>1, <1>4 DEF SessionType, SessionStatuses
<1>9. e = [d EXCEPT !.att = [d.att EXCEPT ![r] = a], !.sess = [d.sess EXCEPT ![r] = s],
                    !.ivs = [d.ivs EXCEPT ![i] = iv]]
  BY <1>1 DEF BeginInterventionTurn, RowType
<1> HIDE DEF iv, s
<1> DEFINE ivs == [d.ivs EXCEPT ![i] = iv]
           sess == [d.sess EXCEPT ![r] = s]
           att == [d.att EXCEPT ![r] = a]
<1>10. /\ ivs \in Seq(InterventionType) /\ sess \in [Roles -> SessionType]
       /\ att \in [Roles -> AttemptType]
  BY <1>1, <1>2, <1>4, <1>5, <1>8
<1>11. /\ e \in RowType /\ e.run = d.run /\ e.feature = d.feature /\ e.revs = d.revs
       /\ e.att = att /\ e.sess = sess
       /\ e.ivs = ivs
  <2>1. e = [d EXCEPT !.att = att, !.sess = sess, !.ivs = ivs] BY <1>9
  <2> HIDE DEF ivs, sess, att
  <2>2. QED BY <1>1, <1>10, <2>1 DEF RowType
<1>12. LastMoves(d, e, iv)
  BY <1>1, <1>5, <1>6, <1>7, <1>11, LastIsMoved
<1>13. Active(e) = {r}
  BY <1>1, <1>3, <1>4, <1>8, <1>11 DEF Active, SessionEnds
<1>14. e.att[r] = a BY <1>1, <1>4, <1>11
<1>15. LatestIs(e, "being_answered") /\ Answering(e, r)
  BY <1>5, <1>12, <1>14 DEF LastMoves, LatestIs, Answering
<1>16. \A j \in DOMAIN e.ivs : j # Latest(e) => e.ivs[j].status = "answered"
  BY <1>12 DEF LastMoves
<1>17. QED BY <1>4, <1>11, <1>12, <1>13, <1>15, <1>16 DEF LastMoves

\* An intervention is answered.
LEMMA InterventionEnds ==
    ASSUME NEW d, RowsOK(d), HasLatest(d), NEW a,
           MayCompleteIntervention(d, Latest(d), a), NEW effect \in Effects,
           NEW e, e = CompleteIntervention(d, Latest(d), effect)
    PROVE  /\ RowsOK(e) /\ HasLatest(e) /\ e.run = d.run /\ e.feature = d.feature
           /\ e.att = d.att
           /\ Active(e) = Active(d) \ {d.ivs[Latest(d)].target}
           /\ d.ivs[Latest(d)].target \in Active(d)
           /\ \A i \in DOMAIN e.ivs : e.ivs[i].status = "answered"
<1> DEFINE i == Latest(d)
           r == d.ivs[i].target
           iv == [d.ivs[i] EXCEPT !.status = "answered", !.effect = effect]
           s == [d.sess[r] EXCEPT !.status = "waiting"]
<1>1. /\ d \in RowType /\ d.sess \in [Roles -> SessionType] /\ RunOK(d.run)
      /\ d.att \in [Roles -> AttemptType] /\ d.ivs \in Seq(InterventionType)
  BY DEF RowsOK, RowType
<1>2. i \in DOMAIN d.ivs /\ d.ivs[i] \in InterventionType /\ InterventionValid(d.ivs[i])
  BY LatestFields
<1>3. d.ivs[i].status = "being_answered" /\ d.sess[r].status = "running"
  BY DEF MayCompleteIntervention
<1>4. r \in Roles BY <1>2 DEF InterventionType
<1>5. /\ iv \in InterventionType /\ iv.status = "answered" /\ iv.attempt = d.ivs[i].attempt
      /\ iv.id = d.ivs[i].id /\ iv.effect = effect
      /\ iv.resolved = d.ivs[i].resolved
  BY <1>2 DEF InterventionType
<1>6. ~d.ivs[i].resolved /\ d.ivs[i].attempt # NoAttempt
  BY <1>2, <1>3 DEF InterventionValid
<1>7. InterventionValid(iv) BY <1>5, <1>6 DEF InterventionValid
<1>8. s \in SessionType /\ s.status = "waiting" BY <1>1, <1>4 DEF SessionType, SessionStatuses
<1>9. e = [d EXCEPT !.sess = [d.sess EXCEPT ![r] = s],
                    !.ivs = [d.ivs EXCEPT ![i] = iv]]
  BY <1>1 DEF CompleteIntervention, RowType
<1> HIDE DEF iv, s
<1> DEFINE ivs == [d.ivs EXCEPT ![i] = iv]
           sess == [d.sess EXCEPT ![r] = s]
<1>10. /\ ivs \in Seq(InterventionType) /\ sess \in [Roles -> SessionType]
  BY <1>1, <1>2, <1>4, <1>5, <1>8
<1>11. /\ e \in RowType /\ e.run = d.run /\ e.feature = d.feature /\ e.revs = d.revs
       /\ e.att = d.att /\ e.sess = sess
       /\ e.ivs = ivs
  <2>1. e = [d EXCEPT !.sess = sess, !.ivs = ivs] BY <1>9
  <2> HIDE DEF ivs, sess
  <2>2. QED BY <1>1, <1>10, <2>1 DEF RowType
<1>12. LastMoves(d, e, iv)
  BY <1>1, <1>5, <1>6, <1>7, <1>11, LastIsMoved
<1>13. Active(e) = Active(d) \ {r} /\ r \in Active(d)
  BY <1>1, <1>3, <1>4, <1>8, <1>11 DEF Active, SessionEnds
<1>14. \A j \in DOMAIN e.ivs : e.ivs[j].status = "answered"
  BY <1>5, <1>12 DEF LastMoves
<1>15. QED BY <1>11, <1>12, <1>13, <1>14 DEF LastMoves

\* Guidance that was applied is resolved by the resume.
LEMMA GuidanceResolves ==
    ASSUME NEW d, RowsOK(d), HasLatest(d), NEW k \in ResumeKeys,
           MayResolveGuidance(d, k, Latest(d)),
           NEW e, e = ResolveInterventionGuidance(d, k, Latest(d))
    PROVE  /\ RowsOK(e) /\ HasLatest(e) /\ e.feature = d.feature
           /\ e.att = d.att /\ e.sess = d.sess
           /\ ~e.run.paused /\ e.run.status = d.run.status /\ e.run.version = d.run.version
           /\ Blocked(d) => Blocked(e)
           /\ \A i \in DOMAIN e.ivs : e.ivs[i].status = "answered"
<1> DEFINE i == Latest(d)
           iv == [d.ivs[i] EXCEPT !.resolved = TRUE]
           run == Unpaused(d.run)
           acts == d.acts \cup {<<k, "resume">>}
           ivs == [d.ivs EXCEPT ![i] = iv]
<1>1. d \in RowType /\ d.ivs \in Seq(InterventionType) BY DEF RowsOK, RowType
<1>2. i \in DOMAIN d.ivs /\ d.ivs[i] \in InterventionType /\ InterventionValid(d.ivs[i])
  BY LatestFields
<1>3. d.ivs[i].status = "answered" /\ d.run.paused
  BY DEF MayResolveGuidance, Answered, AtRestPaused
<1>4. /\ iv \in InterventionType /\ iv.status = "answered" /\ iv.attempt = d.ivs[i].attempt
      /\ iv.id = d.ivs[i].id /\ iv.effect = d.ivs[i].effect /\ iv.resolved
  BY <1>2, <1>3 DEF InterventionType
<1>5. InterventionValid(iv) BY <1>2, <1>3, <1>4 DEF InterventionValid
<1>6. /\ RunOK(run) /\ ~run.paused /\ run.status = d.run.status
      /\ run.version = d.run.version /\ (Blocked(d) => run.kind = "blocker")
  BY <1>3, UnpausedRun
<1>7. run \in RunType BY <1>6 DEF RunOK
<1>8. acts \in SUBSET ActionType BY ActFields DEF AnyKey
<1>9. e = [d EXCEPT !.run = run, !.ivs = ivs, !.acts = acts]
  BY <1>1 DEF ResolveInterventionGuidance, RowType
<1> HIDE DEF iv
<1>10. ivs \in Seq(InterventionType) BY <1>1, <1>2, <1>4
<1>11. /\ e \in RowType /\ e.run = run /\ e.feature = d.feature /\ e.revs = d.revs
       /\ e.att = d.att /\ e.sess = d.sess /\ e.ivs = ivs
  <2> HIDE DEF run, ivs, acts
  <2>1. QED BY <1>1, <1>7, <1>8, <1>9, <1>10 DEF RowType
<1>12. LastMoves(d, e, iv)
  BY <1>4, <1>5, <1>6, <1>11, LastIsMoved
<1>13. \A j \in DOMAIN e.ivs : e.ivs[j].status = "answered"
  BY <1>4, <1>12 DEF LastMoves
<1>14. QED BY <1>6, <1>11, <1>12, <1>13 DEF LastMoves, Blocked

\* An intervention is queued, with the pause it asks for.
LEMMA InterventionQueues ==
    ASSUME NEW d, RowsOK(d), NEW g \in Guidance, NEW r \in Roles,
           MayQueueIntervention(d, g, r), NEW e, e = QueueIntervention(d, g, r)
    PROVE  /\ RowsOK(e) /\ Beside(d, e) /\ HasLatest(e)
           /\ e.run.paused /\ e.run.status = d.run.status /\ e.run.version = d.run.version
           /\ Blocked(d) => Blocked(e)
           /\ LatestIs(e, "queued") => d.run.status = "waiting"
           /\ ~LatestIs(e, "being_answered") /\ ~LatestIs(d, "being_answered")
<1> DEFINE iv == [id |-> g, target |-> r, effect |-> "none", attempt |-> NoAttempt,
                  resolved |-> FALSE,
                  status |-> IF d.run.status = "waiting" THEN "queued" ELSE "waiting_for_boundary"]
           run == Paused(d.run)
           ivs == Append(d.ivs, iv)
<1>1. d \in RowType /\ d.ivs \in Seq(InterventionType) /\ IvsOK(d.ivs) BY DEF RowsOK, RowType
<1>2. /\ iv \in InterventionType /\ iv.id = g /\ iv.attempt = NoAttempt /\ ~iv.resolved
      /\ iv.effect = "none" /\ iv.status \in {"queued", "waiting_for_boundary"}
      /\ iv.status = "queued" => d.run.status = "waiting"
  BY DEF InterventionType, NoAttempt, AttemptType
<1>3. InterventionValid(iv) BY <1>2 DEF InterventionValid, Effects
<1>4. /\ RunOK(run) /\ run.paused /\ run.status = d.run.status
      /\ run.version = d.run.version
      /\ Blocked(d) => "blocker" \in {run.kind, run.from}
  BY PausedRun
<1>5. run \in RunType BY <1>4 DEF RunOK
<1>6. e = [d EXCEPT !.run = run, !.ivs = ivs] BY <1>1 DEF QueueIntervention, RowType
<1>7. \A i \in DOMAIN d.ivs : d.ivs[i].status = "answered" /\ d.ivs[i].id # g
  BY DEF MayQueueIntervention, Unfinished
<1> HIDE DEF iv
<1>8. /\ ivs \in Seq(InterventionType) /\ Len(ivs) = Len(d.ivs) + 1 /\ ivs # <<>>
      /\ DOMAIN ivs = DOMAIN d.ivs \cup {Len(d.ivs) + 1} /\ ivs[Len(d.ivs) + 1] = iv
      /\ \A i \in DOMAIN d.ivs : ivs[i] = d.ivs[i]
      /\ Len(d.ivs) \in Nat
  BY <1>1, <1>2
<1>9. /\ e \in RowType /\ e.run = run /\ Beside(d, e) /\ e.ivs = ivs
  <2> HIDE DEF run, ivs
  <2>1. QED BY <1>1, <1>5, <1>6, <1>8 DEF RowType, Beside
<1> HIDE DEF ivs, run
<1>10. IvsOK(ivs)
  <2>1. \A i \in DOMAIN ivs : InterventionValid(ivs[i])
    <3>1. \A i \in DOMAIN d.ivs : InterventionValid(ivs[i]) BY <1>1, <1>8 DEF IvsOK
    <3>2. QED BY <1>3, <1>8, <3>1
  <2>2. \A i \in DOMAIN ivs : ivs[i].status # "answered" => i = Len(ivs)
    BY <1>7, <1>8
  <2>3. \A i, j \in DOMAIN ivs : i # j => ivs[i].id # ivs[j].id
    <3>1. SUFFICES ASSUME NEW i \in DOMAIN ivs, NEW j \in DOMAIN ivs, i # j
                   PROVE  ivs[i].id # ivs[j].id
      OBVIOUS
    <3>2. CASE i \in DOMAIN d.ivs /\ j \in DOMAIN d.ivs BY <1>1, <1>8, <3>1, <3>2 DEF IvsOK
    <3>3. CASE i \notin DOMAIN d.ivs
      <4>1. ivs[i].id = g /\ j \in DOMAIN d.ivs BY <1>2, <1>8, <3>1, <3>3
      <4>2. QED BY <1>7, <1>8, <4>1
    <3>4. CASE j \notin DOMAIN d.ivs
      <4>1. ivs[j].id = g /\ i \in DOMAIN d.ivs BY <1>2, <1>8, <3>1, <3>4
      <4>2. QED BY <1>7, <1>8, <4>1
    <3>5. QED BY <3>2, <3>3, <3>4
  <2>4. QED BY <1>8, <2>1, <2>2, <2>3 DEF IvsOK
<1>11. HasLatest(e) /\ Latest(e) = Len(d.ivs) + 1 BY <1>8, <1>9 DEF HasLatest, Latest
<1>12. AskedFor(e)
  <2>1. \A i \in DOMAIN d.ivs : d.ivs[i].resolved =>
              e.ivs[i].resolved /\ e.ivs[i].effect = d.ivs[i].effect
    BY <1>8, <1>9
  <2>2. DOMAIN d.ivs \subseteq DOMAIN e.ivs BY <1>8, <1>9
  <2>3. AskedFor(d) /\ e.revs = d.revs /\ e.run.version = d.run.version
    BY <1>4, <1>9 DEF RowsOK, Beside
  <2>4. QED BY <2>1, <2>2, <2>3, StillAskedFor
<1>13. RowsOK(e) BY <1>4, <1>9, <1>10, <1>11, <1>12 DEF RowsOK
<1>14. /\ LatestIs(e, "queued") => d.run.status = "waiting"
       /\ ~LatestIs(e, "being_answered")
  BY <1>2, <1>8, <1>9, <1>11 DEF LatestIs
<1>15. ~LatestIs(d, "being_answered") BY <1>7, LatestFields DEF LatestIs
<1>16. QED BY <1>4, <1>9, <1>11, <1>13, <1>14, <1>15 DEF Blocked

\* The lead plans again, on the next version of the plan.
Replanned(d, k, a) == [BeginReplanningTurn(d, k, Latest(d), a) EXCEPT !.plan = NoPlan]

LEMMA ReplanningBegins ==
    ASSUME NEW d, RowsOK(d), HasLatest(d), NEW k \in AnyKey,
           MayBeginReplanning(d, k, Latest(d), d.run.version + 1, d.att["lead"]),
           NEW a \in AttemptType, a.kind = "planning",
           NEW e, e = Replanned(d, k, a)
    PROVE  /\ RowsOK(e) /\ HasLatest(e) /\ e.feature = "planning"
           /\ e.att = [d.att EXCEPT !["lead"] = a]
           /\ Active(e) = {"lead"}
           /\ e.run.status = "running" /\ ~e.run.paused /\ e.run.version = d.run.version + 1
           /\ \A i \in DOMAIN e.ivs : e.ivs[i].status = "answered"
<1> DEFINE i == Latest(d)
           iv == [d.ivs[i] EXCEPT !.resolved = TRUE]
           ivs == [d.ivs EXCEPT ![i] = iv]
           v == d.run.version
           w == v + 1
           run == [d.run EXCEPT !.status = "running", !.kind = "none", !.paused = FALSE,
                                !.from = "none", !.version = w]
           acts == d.acts \cup {<<k, "resume">>}
           new == [version |-> v + 1, iv |-> i]
           revs == d.revs \cup {new}
           att == [d.att EXCEPT !["lead"] = a]
           sess == [d.sess EXCEPT !["lead"] = [d.sess["lead"] EXCEPT !.status = "running"]]
<1>1. /\ d \in RowType /\ d.ivs \in Seq(InterventionType) /\ IvsOK(d.ivs) /\ d.ivs # <<>>
      /\ d.sess \in [Roles -> SessionType] /\ d.att \in [Roles -> AttemptType]
      /\ d.run \in RunType /\ RunOK(d.run) /\ d.revs \in SUBSET RevisionType /\ AskedFor(d)
  BY DEF RowsOK, RowType, HasLatest
<1>2. /\ i \in DOMAIN d.ivs /\ i \in Nat /\ d.ivs[i] \in InterventionType
      /\ InterventionValid(d.ivs[i])
  BY LatestFields
<1>3. /\ d.ivs[i].status = "answered" /\ d.ivs[i].effect = "replanning_required"
      /\ ~d.ivs[i].resolved /\ d.feature = "planning" /\ Active(d) = {}
  BY DEF MayBeginReplanning, Answered
<1>4. /\ iv \in InterventionType /\ iv.status = "answered" /\ iv.attempt = d.ivs[i].attempt
      /\ iv.id = d.ivs[i].id /\ iv.effect = d.ivs[i].effect /\ iv.resolved
  BY <1>2, <1>3 DEF InterventionType
<1>5. InterventionValid(iv) BY <1>2, <1>3, <1>4 DEF InterventionValid
<1>6. v \in Nat /\ v >= 1 /\ w \in Nat BY <1>1 DEF RunType, RunOK, RunValid
<1>7. /\ run \in RunType /\ run.status = "running" /\ ~run.paused /\ run.kind = "none"
      /\ run.from = "none" /\ run.version = w /\ run.limit = d.run.limit
  <2> HIDE DEF w
  <2>1. QED BY <1>1, <1>6 DEF RunType, RunStatuses
<1>8. RunOK(run) BY <1>1, <1>6, <1>7 DEF RunOK, RunValid, RunStatuses
<1>9. acts \in SUBSET ActionType BY ActFields
<1>10. new \in RevisionType /\ new.version = v + 1 /\ new.iv = i BY <1>2, <1>6 DEF RevisionType
<1>11. revs \in SUBSET RevisionType BY <1>1, <1>10
<1>12. /\ att \in [Roles -> AttemptType] /\ sess \in [Roles -> SessionType]
       /\ sess["lead"].status = "running" /\ \A r \in Roles : r # "lead" => sess[r] = d.sess[r]
  BY <1>1 DEF Roles, SessionType, SessionStatuses
<1>13. e = [d EXCEPT !.ivs = ivs, !.revs = revs, !.att = att, !.sess = sess, !.run = run,
                     !.acts = acts, !.plan = NoPlan]
  <2>1. run = [d.run EXCEPT !.status = "running", !.kind = "none", !.paused = FALSE,
                            !.from = "none", !.version = d.run.version + 1]
    BY <1>1 DEF RunType
  <2>2. BeginReplanningTurn(d, k, i, a)
          = [d EXCEPT !.ivs = ivs, !.revs = revs, !.att = att, !.sess = sess, !.run = run,
                      !.acts = acts]
    <3> HIDE DEF run
    <3>1. QED BY <1>1, <2>1 DEF BeginReplanningTurn, RowType
  <2> HIDE DEF ivs, revs, att, sess, run, acts
  <2>3. QED BY <1>1, <2>2 DEF RowType, Replanned
<1> HIDE DEF iv
<1>14. ivs \in Seq(InterventionType) BY <1>1, <1>2, <1>4
<1>15. NoPlan \in PlanType BY DEF NoPlan, PlanType
<1>16. /\ e \in RowType /\ e.run = run /\ e.feature = d.feature /\ e.revs = revs
       /\ e.att = att /\ e.sess = sess /\ e.ivs = ivs
  <2> HIDE DEF run, ivs, acts, revs, att, sess
  <2>1. QED BY <1>1, <1>7, <1>9, <1>11, <1>12, <1>13, <1>14, <1>15 DEF RowType
<1>17. /\ IvsOK(ivs) /\ ivs # <<>> /\ DOMAIN ivs = DOMAIN d.ivs
       /\ Len(ivs) = i /\ ivs[i] = iv
       /\ \A j \in DOMAIN d.ivs : j # i => ivs[j] = d.ivs[j] /\ d.ivs[j].status = "answered"
  BY <1>1, <1>4, <1>5, LastReplaced DEF Latest
<1>18. \A j \in DOMAIN ivs : ivs[j].status = "answered" BY <1>4, <1>17
<1> HIDE DEF ivs, run, new
<1>19. AskedFor(e)
  <2>1. /\ IsFiniteSet(d.revs) /\ v = 1 + Cardinality(d.revs)
        /\ \A x \in d.revs : /\ x.version <= v /\ x.iv \in DOMAIN d.ivs
                             /\ d.ivs[x.iv].resolved
                             /\ d.ivs[x.iv].effect = "replanning_required"
        /\ \A x, y \in d.revs : x # y => x.iv # y.iv /\ x.version # y.version
        /\ \A x \in d.revs : x.version \in Nat
    BY <1>1 DEF AskedFor, RevisionType
  <2>2. new \notin d.revs BY <1>6, <1>10, <2>1
  <2>3. IsFiniteSet(revs) /\ Cardinality(revs) = Cardinality(d.revs) + 1
    BY <2>1, <2>2, FS_AddElement
  <2>4. Cardinality(d.revs) \in Nat BY <2>1, FS_CardinalityType
  <2>5. run.version = 1 + Cardinality(revs) BY <1>7, <2>1, <2>3, <2>4
  <2>6. \A x \in d.revs : x.iv # i /\ x.version # v + 1
    <3>1. SUFFICES ASSUME NEW x \in d.revs PROVE x.iv # i /\ x.version # v + 1 OBVIOUS
    <3>2. d.ivs[x.iv].resolved /\ x.version <= v /\ x.version \in Nat BY <2>1
    <3>3. QED BY <1>3, <1>6, <3>2
  <2>7. \A x, y \in revs : x # y => x.iv # y.iv /\ x.version # y.version
    BY <1>10, <2>1, <2>6
  <2>8. \A x \in revs : /\ x.version <= v + 1 /\ x.iv \in DOMAIN ivs
                        /\ ivs[x.iv].resolved
                        /\ ivs[x.iv].effect = "replanning_required"
    <3>1. SUFFICES ASSUME NEW x \in revs
                   PROVE  /\ x.version <= v + 1 /\ x.iv \in DOMAIN ivs
                          /\ ivs[x.iv].resolved
                          /\ ivs[x.iv].effect = "replanning_required"
      OBVIOUS
    <3>2. CASE x = new BY <1>2, <1>3, <1>4, <1>6, <1>10, <1>17, <3>2
    <3>3. CASE x \in d.revs
      <4>1. x.iv # i /\ x.version <= v /\ x.version \in Nat /\ x.iv \in DOMAIN d.ivs
        BY <2>1, <2>6, <3>3
      <4>2. ivs[x.iv] = d.ivs[x.iv] BY <1>17, <4>1
      <4>3. QED BY <1>6, <1>17, <2>1, <3>3, <4>1, <4>2
    <3>4. QED BY <3>2, <3>3
  <2>9. e.revs = revs /\ e.ivs = ivs /\ e.run.version = v + 1 BY <1>7, <1>16
  <2> HIDE DEF revs
  <2>10. QED BY <1>7, <2>3, <2>5, <2>7, <2>8, <2>9 DEF AskedFor
<1>20. HasLatest(e) BY <1>16, <1>17 DEF HasLatest
<1>21. RowsOK(e) BY <1>8, <1>16, <1>17, <1>19, <1>20 DEF RowsOK
<1>22. Active(e) = {"lead"} BY <1>3, <1>12, <1>16 DEF Active, Roles, SessionEnds
<1>23. QED BY <1>3, <1>7, <1>16, <1>18, <1>20, <1>21, <1>22

-----------------------------------------------------------------------------
(* What a step comes to.                                                   *)

\* A workflow turn is admitted only by an unpaused run, or on a new plan
\* version; and an intervention is never forgotten.
Forward(d, e) ==
    /\ \A r \in Roles : (e.att[r] # d.att[r] /\ e.att[r].kind # "intervention")
                          => ~d.run.paused \/ e.run.version > d.run.version
    /\ HasLatest(d) => HasLatest(e)

ResType == [d : RowType, l : PlaceType, err : BOOLEAN]

\* The result of a handler that found the rows d.
Good(d, res, o) ==
    /\ res \in ResType
    /\ Sound(res.d, res.l, o)
    /\ Forward(d, res.d)
    /\ Watched(d, live) => o \/ Watched(res.d, res.l)

\* Every intervention is answered.
AllAnswered(d) == \A i \in DOMAIN d.ivs : d.ivs[i].status = "answered"

\* The turn a of r is one the rows call for.
Fits(d, r, a) ==
    IF d.feature = "planning"
    THEN a.kind \in {"planning", "approval"} /\ a.v = d.run.version
    ELSE a.kind = "implementation" /\ r = "lead"

LEMMA NamedPlaces ==
    ASSUME NEW pc \in Places, NEW r \in Roles, NEW a \in AttemptType
    PROVE  /\ At(pc, r, a) \in PlaceType
           /\ At(pc, r, a).pc = pc /\ At(pc, r, a).role = r /\ At(pc, r, a).next = a
           /\ Idle \in PlaceType /\ Idle.pc = "idle"
           /\ NoAttempt \in AttemptType
BY DEF At, Idle, PlaceType, Places, AnyKey, Roles, AttemptType, NoAttempt

LEMMA NoAttemptTyped == NoAttempt \in AttemptType
BY DEF AttemptType, NoAttempt

LEMMA ResFields ==
    ASSUME NEW d, NEW l, NEW err
    PROVE  /\ Res(d, l, err).d = d /\ Res(d, l, err).l = l /\ Res(d, l, err).err = err
           /\ d \in RowType /\ l \in PlaceType /\ err \in BOOLEAN => Res(d, l, err) \in ResType
BY DEF Res, ResType

LEMMA AllAnsweredLatest ==
    ASSUME NEW d, RowsOK(d), AllAnswered(d), NEW s, LatestIs(d, s)
    PROVE  s = "answered"
BY LatestFields DEF AllAnswered, LatestIs

LEMMA AnsweredHolds ==
    ASSUME NEW d, RowsOK(d), AllAnswered(d), NEW o \in BOOLEAN
    PROVE  InterventionsHold(d, o) /\ ~LatestIs(d, "being_answered") /\ ~LatestIs(d, "queued")
<1>1. ~LatestIs(d, "being_answered") /\ ~LatestIs(d, "queued") BY AllAnsweredLatest
<1>2. QED BY <1>1 DEF InterventionsHold, AllAnswered

\* Where no run is paused, every intervention is answered.
LEMMA UnpausedIsAnswered ==
    ASSUME NEW d, RowsOK(d), NEW o \in BOOLEAN, InterventionsHold(d, o), ~o, ~Ended(d),
           ~d.run.paused
    PROVE  AllAnswered(d)
BY DEF InterventionsHold, AllAnswered

\* At rest nothing is expected of anybody.
LEMMA RestIsSound ==
    ASSUME NEW d, RowsOK(d), Active(d) = {}, NEW o \in BOOLEAN, InterventionsHold(d, o),
           NEW l \in PlaceType, l.pc # "reattach", RightPlace(d, l),
           Ended(d) => l.pc \in {"idle", "release"}
    PROVE  Sound(d, l, o) /\ Watched(d, l)
BY DEF Sound, OneAtWork, WorkIsExpected, Watched

LEMMA AskedFieldsStay ==
    ASSUME NEW d, RowsOK(d), NEW e, SameIvs(d.ivs, e.ivs), e.ivs \in Seq(InterventionType),
           e.att = d.att
    PROVE  /\ LatestIs(e, "being_answered") <=> LatestIs(d, "being_answered")
           /\ \A r \in Roles : Answering(e, r) <=> Answering(d, r)
           /\ \A i \in DOMAIN e.ivs : e.ivs[i].status # "answered"
                 => i \in DOMAIN d.ivs /\ d.ivs[i].status # "answered"
<1>1. /\ HasLatest(d) <=> HasLatest(e)
      /\ Latest(e) = Latest(d)
      /\ HasLatest(d) => Latest(d) \in DOMAIN d.ivs
  BY SameHasLatest
<1>2. LatestIs(e, "being_answered") <=> LatestIs(d, "being_answered")
  BY <1>1 DEF LatestIs, SameIvs
<1>3. \A r \in Roles : Answering(e, r) <=> Answering(d, r)
  BY <1>1, <1>2 DEF Answering, LatestIs, SameIvs
<1>4. QED BY <1>2, <1>3 DEF SameIvs

\* A run that waits is as sound as before, if it waits for the user or
\* nobody is at work.
LEMMA WaitRunHolds ==
    ASSUME NEW d, RowsOK(d), NEW kind \in WaitKinds, NEW e, e = waitRun(d, kind),
           NEW o \in BOOLEAN, InterventionsHold(d, o)
    PROVE  /\ InterventionsHold(e, o) /\ Active(e) = Active(d) /\ (Ended(e) <=> Ended(d))
           /\ \A r \in Roles : (Answering(e, r) <=> Answering(d, r)) /\ (Expected(e, r) <=> Expected(d, r))
           /\ HasLatest(e) <=> HasLatest(d)
<1>1. /\ RowsOK(e) /\ Beside(d, e) /\ SameIvs(d.ivs, e.ivs)
      /\ e.run.paused = d.run.paused /\ e.run.version = d.run.version
      /\ Ended(d) => e = d
      /\ ~Ended(d) => e.run.status = "waiting"
  BY WaitRun
<1>2. e.ivs \in Seq(InterventionType) BY <1>1, RowFields
<1>3. /\ LatestIs(e, "being_answered") <=> LatestIs(d, "being_answered")
      /\ \A r \in Roles : Answering(e, r) <=> Answering(d, r)
      /\ \A i \in DOMAIN e.ivs : e.ivs[i].status # "answered"
            => i \in DOMAIN d.ivs /\ d.ivs[i].status # "answered"
  BY <1>1, <1>2, AskedFieldsStay DEF Beside
<1>4. Active(e) = Active(d) BY <1>1 DEF Active, Beside
<1>5. Ended(e) <=> Ended(d) BY <1>1 DEF Ended, RunEnds
<1>6. \A r \in Roles : Expected(e, r) <=> Expected(d, r)
  BY <1>1, <1>3 DEF Expected, Beside
<1>7. InterventionsHold(e, o)
  <2>1. CASE o \/ Ended(d) BY <1>5, <2>1 DEF InterventionsHold
  <2>2. CASE ~o /\ ~Ended(d)
    <3>1. \A i \in DOMAIN d.ivs : d.ivs[i].status # "answered" => d.run.paused
      BY <2>2 DEF InterventionsHold
    <3>2. \A i \in DOMAIN e.ivs : e.ivs[i].status # "answered" => e.run.paused
      BY <1>1, <1>3, <3>1
    <3>3. LatestIs(e, "queued") \/ LatestIs(e, "being_answered") => AtRestPaused(e)
      <4>1. SUFFICES ASSUME LatestIs(e, "queued") \/ LatestIs(e, "being_answered")
                     PROVE  AtRestPaused(e)
        OBVIOUS
      <4>2. e.ivs[Latest(e)].status # "answered" /\ Latest(e) \in DOMAIN e.ivs
        BY <1>1, <4>1, LatestFields DEF LatestIs
      <4>3. QED BY <1>1, <2>2, <3>2, <4>2 DEF AtRestPaused
    <3>4. QED BY <3>2, <3>3 DEF InterventionsHold
  <2>3. QED BY <2>1, <2>2
<1>8. HasLatest(e) <=> HasLatest(d) BY <1>1, <1>2, SameHasLatest
<1>9. QED BY <1>3, <1>4, <1>5, <1>6, <1>7, <1>8

LEMMA WaitRunSound ==
    ASSUME NEW d, NEW l, NEW o \in BOOLEAN, Sound(d, l, o), NEW kind \in WaitKinds,
           kind = "blocker" \/ Active(d) = {}, NEW e, e = waitRun(d, kind)
    PROVE  /\ Sound(e, l, o) /\ Forward(d, e) /\ (Watched(d, l) => Watched(e, l))
           /\ Active(e) = Active(d) /\ (Ended(e) <=> Ended(d))
           /\ kind = "blocker" => Watched(e, l)
<1>1. RowsOK(d) /\ InterventionsHold(d, o) BY DEF Sound
<1>2. /\ RowsOK(e) /\ Beside(d, e) /\ SameIvs(d.ivs, e.ivs)
      /\ e.run.paused = d.run.paused /\ e.run.version = d.run.version
      /\ Ended(d) => e = d
      /\ ~Ended(d) => e.run.status = "waiting"
      /\ kind = "blocker" => Ended(e) \/ Blocked(e)
  BY <1>1, WaitRun
<1>3. /\ InterventionsHold(e, o) /\ Active(e) = Active(d) /\ (Ended(e) <=> Ended(d))
      /\ \A r \in Roles : (Answering(e, r) <=> Answering(d, r)) /\ (Expected(e, r) <=> Expected(d, r))
      /\ HasLatest(e) <=> HasLatest(d)
  BY <1>1, WaitRunHolds
<1>4. OneAtWork(e, l) BY <1>3 DEF Sound, OneAtWork
<1>5. RightPlace(e, l) BY <1>2, <1>3 DEF Sound, RightPlace
<1>6. l \in PlaceType /\ l.role \in Roles BY DEF Sound, PlaceType
<1>7. Active(e) \subseteq Roles BY DEF Active
<1>8. Ended(e) => Active(e) = {} BY <1>4 DEF OneAtWork
<1>9. WorkIsExpected(e, l, o)
  <2>1. WorkIsExpected(d, l, o) BY DEF Sound
  <2>2. QED BY <1>2, <1>3, <1>6, <1>7, <1>8, <2>1 DEF WorkIsExpected
<1>10. Sound(e, l, o) BY <1>2, <1>3, <1>4, <1>5, <1>6, <1>9 DEF Sound
<1>11. Forward(d, e) BY <1>2, <1>3 DEF Forward, Beside
<1>12. kind = "blocker" => Watched(e, l) BY <1>2, <1>8 DEF Watched
<1>13. Watched(d, l) => Watched(e, l)
  <2>1. CASE Active(d) = {} BY <1>3, <2>1 DEF Watched
  <2>2. CASE kind = "blocker" BY <1>12, <2>2
  <2>3. QED BY <2>1, <2>2
<1>14. QED BY <1>3, <1>10, <1>11, <1>12, <1>13

\* A turn that begins when nobody is at work.
LEMMA TurnIsSound ==
    ASSUME NEW d, RowsOK(d), NEW o \in BOOLEAN, InterventionsHold(d, o), Active(d) = {},
           ~Ended(d), ~d.run.paused, NEW r \in Roles, NEW a \in AttemptType,
           o \/ Fits(d, r, a), NEW e, Works(d, e, r, a)
    PROVE  /\ Sound(e, At("turn", r, NoAttempt), o)
           /\ Watched(e, At("turn", r, NoAttempt))
           /\ Forward(d, e)
<1> DEFINE l == At("turn", r, NoAttempt)
<1>1. l \in PlaceType /\ l.pc = "turn" /\ l.role = r
  BY NamedPlaces, NoAttemptTyped DEF Places
<1> HIDE DEF l
<1>2. /\ RowsOK(e) /\ e.run.status = "running" /\ ~e.run.paused /\ e.run.version = d.run.version
      /\ e.ivs = d.ivs /\ e.feature = d.feature /\ e.att = [d.att EXCEPT ![r] = a]
      /\ Active(e) = {r}
  BY DEF Works
<1>3. e.att[r] = a BY <1>2, RowFields
<1>4. ~Ended(e) BY <1>2 DEF Ended, RunEnds
<1>5. o \/ AllAnswered(d) BY UnpausedIsAnswered
<1>6. o \/ AllAnswered(e) BY <1>2, <1>5 DEF AllAnswered
<1>7. InterventionsHold(e, o)
  <2>1. CASE o BY <2>1 DEF InterventionsHold
  <2>2. CASE ~o BY <1>2, <1>6, <2>2, AnsweredHolds
  <2>3. QED BY <2>1, <2>2
<1>8. OneAtWork(e, l) /\ RightPlace(e, l) BY <1>1, <1>2, <1>4 DEF OneAtWork, RightPlace
<1>9. WorkIsExpected(e, l, o)
  <2>1. CASE o BY <2>1 DEF WorkIsExpected
  <2>2. CASE ~o
    <3>1. ~LatestIs(e, "being_answered") BY <1>2, <1>6, <2>2, AnsweredHolds
    <3>2. Fits(d, r, a) BY <2>2
    <3>3. Expected(e, r) BY <1>2, <1>3, <3>1, <3>2 DEF Expected, Fits
    <3>4. QED BY <1>1, <1>2, <3>3 DEF WorkIsExpected
  <2>3. QED BY <2>1, <2>2
<1>10. Sound(e, l, o) BY <1>1, <1>2, <1>7, <1>8, <1>9 DEF Sound
<1>11. Watched(e, l) BY <1>1 DEF Watched
<1>12. Forward(d, e) BY <1>2 DEF Forward, HasLatest
<1>13. QED BY <1>10, <1>11, <1>12 DEF l

-----------------------------------------------------------------------------
(* The handlers, from the rows d they found.                               *)

\* A step that moves neither an attempt, the pause nor the plan version.
Quiet(d, e) ==
    /\ e.att = d.att /\ e.run.paused = d.run.paused /\ e.run.version = d.run.version
    /\ HasLatest(d) => HasLatest(e)
    /\ Watched(d, live) => Watched(e, live)

LEMMA GoodAfter ==
    ASSUME NEW d, NEW e, NEW o \in BOOLEAN, Quiet(d, e), NEW res, Good(e, res, o)
    PROVE  Good(d, res, o)
BY DEF Good, Quiet, Forward

\* A handler that refuses, or finds nothing to do.
LEMMA GoodHere ==
    ASSUME NEW d, NEW e, NEW o \in BOOLEAN, Sound(e, live, o), Quiet(d, e)
    PROVE  Good(d, Refused(e), o) /\ Good(d, Nothing(e), o)
<1>1. e \in RowType /\ live \in PlaceType BY DEF Sound, RowsOK
<1>2. Forward(d, e) BY DEF Quiet, Forward
<1>3. /\ Refused(e) \in ResType /\ Refused(e).d = e /\ Refused(e).l = live
      /\ Nothing(e) \in ResType /\ Nothing(e).d = e /\ Nothing(e).l = live
  BY <1>1 DEF Refused, Nothing, Res, ResType
<1>4. QED BY <1>2, <1>3 DEF Good, Quiet

LEMMA QuietHere == ASSUME NEW d PROVE Quiet(d, d)
BY DEF Quiet

LEMMA GoodStill ==
    ASSUME NEW d, NEW o \in BOOLEAN, Sound(d, live, o)
    PROVE  Good(d, Refused(d), o) /\ Good(d, Nothing(d), o)
BY GoodHere, QuietHere

\* A run that waits for its checkpoint, where nobody is at work.
LEMMA WaitRunQuiet ==
    ASSUME NEW d, NEW o \in BOOLEAN, Sound(d, live, o), NEW kind \in WaitKinds,
           Active(d) = {}, NEW e, e = waitRun(d, kind)
    PROVE  Sound(e, live, o) /\ Quiet(d, e) /\ Active(e) = {}
<1>1. RowsOK(d) /\ InterventionsHold(d, o) BY DEF Sound
<1>2. /\ Sound(e, live, o) /\ Forward(d, e) /\ (Watched(d, live) => Watched(e, live))
      /\ Active(e) = Active(d)
  BY WaitRunSound
<1>3. Beside(d, e) /\ e.run.paused = d.run.paused /\ e.run.version = d.run.version
  BY <1>1, WaitRun
<1>4. QED BY <1>2, <1>3 DEF Quiet, Forward, Beside

\* A turn that begins is a good result.
LEMMA GoodTurn ==
    ASSUME NEW d, RowsOK(d), NEW o \in BOOLEAN, InterventionsHold(d, o), Active(d) = {},
           ~Ended(d), ~d.run.paused, NEW r \in Roles, NEW a \in AttemptType,
           o \/ Fits(d, r, a), NEW e, Works(d, e, r, a)
    PROVE  Good(d, Res(e, At("turn", r, NoAttempt), FALSE), o)
<1> DEFINE l == At("turn", r, NoAttempt)
<1>1. l \in PlaceType BY NamedPlaces, NoAttemptTyped DEF Places
<1>2. Sound(e, l, o) /\ Watched(e, l) /\ Forward(d, e) BY TurnIsSound
<1>3. e \in RowType BY DEF Works, RowsOK
<1> HIDE DEF l
<1>4. /\ Res(e, l, FALSE).d = e /\ Res(e, l, FALSE).l = l
      /\ Res(e, l, FALSE) \in ResType
  BY <1>1, <1>3 DEF Res, ResType
<1>5. Good(d, Res(e, l, FALSE), o) BY <1>2, <1>4 DEF Good
<1>6. QED BY <1>5 DEF l

\* A place that is taken while nobody is at work.
LEMMA GoodPlace ==
    ASSUME NEW d, NEW e, NEW o \in BOOLEAN, RowsOK(e), InterventionsHold(e, o), Active(e) = {},
           ~Ended(e), NEW l \in PlaceType, l.pc # "reattach", RightPlace(e, l),
           Forward(d, e), NEW err \in BOOLEAN
    PROVE  Good(d, Res(e, l, err), o)
<1>1. Sound(e, l, o) /\ Watched(e, l) BY RestIsSound
<1>2. /\ Res(e, l, err).d = e /\ Res(e, l, err).l = l
      /\ Res(e, l, err) \in ResType
  BY ResFields DEF RowsOK
<1>3. QED BY <1>1, <1>2 DEF Good

LEMMA ForwardStill == ASSUME NEW d PROVE Forward(d, d)
BY DEF Forward

\* The delivery of the intervention that waits.
LEMMA AdvanceInterventionGood ==
    ASSUME NEW d, NEW o \in BOOLEAN, Sound(d, live, o), Deliverable(d)
    PROVE  Good(d, AdvanceIntervention(d), o)
<1> DEFINE i == Latest(d)
           a == Attempt("intervention", d.run.version, i)
           r == d.ivs[i].target
           e == BeginInterventionTurn(d, i, a)
           l == At("turn", r, NoAttempt)
<1>1. CASE Claimed BY <1>1, GoodStill DEF AdvanceIntervention
<1>2. CASE ~Claimed /\ ~MayBeginInterventionTurn(d, i)
  BY <1>2, GoodStill DEF AdvanceIntervention
<1>3. CASE ~Claimed /\ MayBeginInterventionTurn(d, i)
  <2>1. RowsOK(d) /\ HasLatest(d) /\ AtRestPaused(d) BY DEF Sound, Deliverable
  <2>2. d.run.version \in Nat /\ i \in Nat BY <2>1, RowFields, LatestFields DEF RunType
  <2>3. a \in AttemptType /\ a.kind = "intervention" BY <2>2 DEF Attempt, AttemptType
  <2> HIDE DEF a
  <2>4. /\ r \in Roles
        /\ RowsOK(e) /\ e.run = d.run /\ e.feature = d.feature
        /\ e.att = [d.att EXCEPT ![r] = a]
        /\ Active(e) = {r} /\ LatestIs(e, "being_answered") /\ Answering(e, r)
        /\ \A j \in DOMAIN e.ivs : j # Latest(e) => e.ivs[j].status = "answered"
    BY <1>3, <2>1, <2>3, InterventionBegins
  <2> HIDE DEF e, i
  <2>5. l \in PlaceType /\ l.pc = "turn" /\ l.role = r
    BY <2>4, NamedPlaces, NoAttemptTyped DEF Places
  <2>6. AtRestPaused(e) /\ ~Ended(e) BY <2>1, <2>4 DEF AtRestPaused, Ended, RunEnds
  <2>7. InterventionsHold(e, o) BY <2>6 DEF InterventionsHold, AtRestPaused
  <2> HIDE DEF r, l
  <2>8. OneAtWork(e, l) /\ RightPlace(e, l) BY <2>4, <2>5, <2>6 DEF OneAtWork, RightPlace
  <2>9. WorkIsExpected(e, l, o) BY <2>4, <2>5 DEF WorkIsExpected, Expected
  <2>10. Sound(e, l, o) BY <2>4, <2>5, <2>7, <2>8, <2>9 DEF Sound
  <2>11. Watched(e, l) BY <2>5 DEF Watched
  <2>12. Forward(d, e)
    <3>1. HasLatest(e) BY <2>4 DEF LatestIs
    <3>2. \A x \in Roles : e.att[x] = d.att[x] \/ e.att[x].kind = "intervention"
      BY <2>1, <2>3, <2>4, RowFields
    <3>3. QED BY <3>1, <3>2 DEF Forward
  <2>13. AdvanceIntervention(d) = Res(e, l, FALSE)
    BY <1>3 DEF AdvanceIntervention, e, i, l, r, a
  <2>14. /\ Res(e, l, FALSE).d = e /\ Res(e, l, FALSE).l = l
         /\ Res(e, l, FALSE) \in ResType
    BY <2>4, <2>5 DEF RowsOK, Res, ResType
  <2>15. QED BY <2>10, <2>11, <2>12, <2>13, <2>14 DEF Good
<1>4. QED BY <1>1, <1>2, <1>3

\* A handler that found the run anything but waiting leaves it alone.
LeavesAlone(d, res) == d.run.status # "waiting" => res.d = d /\ res.l = live

LEMMA LeftAlone ==
    ASSUME NEW d
    PROVE  LeavesAlone(d, Refused(d)) /\ LeavesAlone(d, Nothing(d))
BY DEF LeavesAlone, Refused, Nothing, Res

\* The next turn of a role at rest.
LEMMA StartTurnGood ==
    ASSUME NEW d, NEW o \in BOOLEAN, Sound(d, live, o), Active(d) = {}, NEW r \in Roles,
           NEW a \in AttemptType, a.kind = "planning", a.v = d.run.version
    PROVE  Good(d, StartTurn(d, r, a), o) /\ LeavesAlone(d, StartTurn(d, r, a))
<1>1. CASE ~Claimed /\ MayBeginAutonomousTurn(d, r, d.att[r], "planning", FALSE, FALSE)
  <2>1. /\ ~d.run.paused /\ d.run.status = "waiting" /\ d.feature = "planning"
    BY <1>1 DEF MayBeginAutonomousTurn
  <2>2. RowsOK(d) /\ InterventionsHold(d, o) BY DEF Sound
  <2>3. ~Ended(d) /\ Fits(d, r, a) BY <2>1 DEF Ended, RunEnds, Fits
  <2>4. Works(d, BeginAutonomousTurn(d, r, a), r, a) BY <2>1, <2>2, TurnFields
  <2>5. StartTurn(d, r, a) = Res(BeginAutonomousTurn(d, r, a), At("turn", r, NoAttempt), FALSE)
    BY <1>1 DEF StartTurn, Begun
  <2>6. QED BY <2>1, <2>2, <2>3, <2>4, <2>5, GoodTurn DEF LeavesAlone
<1>2. CASE ~(~Claimed /\ MayBeginAutonomousTurn(d, r, d.att[r], "planning", FALSE, FALSE))
  BY <1>2, GoodStill, LeftAlone DEF StartTurn
<1>3. QED BY <1>1, <1>2

LEMMA BothSettled ==
    ASSUME NEW d, Settled(d, "lead"), Settled(d, "reviewer")
    PROVE  Active(d) = {}
BY DEF Settled, Active, Roles

LEMMA StartPlanningReviewGood ==
    ASSUME NEW d, NEW o \in BOOLEAN, Sound(d, live, o)
    PROVE  Good(d, StartPlanningReview(d), o) /\ LeavesAlone(d, StartPlanningReview(d))
<1>1. RowsOK(d) /\ InterventionsHold(d, o) BY DEF Sound
<1>2. d.run.version \in Nat /\ d.run.version >= 1 BY <1>1, RowFields DEF RunType, RowsOK, RunOK, RunValid
<1>3. ~d.run.paused => (d.run.version > 1 \/ d.run.version = 1) BY <1>2
<1>4. CASE d.run.paused \/ d.feature # "planning"
  BY <1>4, GoodStill, LeftAlone DEF StartPlanningReview
<1>5. CASE ~d.run.paused /\ d.feature = "planning" /\ d.run.version > 1
  <2> DEFINE a == Attempt("planning", d.run.version, 1)
  <2>1. StartPlanningReview(d) = StartReplanningReview(d) BY <1>5 DEF StartPlanningReview
  <2>2. a \in AttemptType /\ a.kind = "planning" /\ a.v = d.run.version
    BY <1>2 DEF Attempt, AttemptType
  <2>3. CASE StartReplanningReview(d) \in {Refused(d), Nothing(d)}
    BY <2>1, <2>3, GoodStill, LeftAlone
  <2>4. CASE StartReplanningReview(d) \notin {Refused(d), Nothing(d)}
    <3>1. /\ Settled(d, "lead") /\ Settled(d, "reviewer")
          /\ StartReplanningReview(d) = StartTurn(d, "reviewer", a)
      BY <2>4 DEF StartReplanningReview
    <3>2. Active(d) = {} /\ "reviewer" \in Roles BY <3>1, BothSettled DEF Roles
    <3> HIDE DEF a
    <3>3. QED BY <2>1, <2>2, <3>1, <3>2, StartTurnGood
  <2>5. QED BY <2>3, <2>4
<1>6. CASE ~d.run.paused /\ d.feature = "planning" /\ d.run.version = 1
  <2> DEFINE a == Attempt("planning", 1, 1)
             e == BeginNewSessionTurn(d, "reviewer", a)
  <2>1. StartPlanningReview(d) = StartFirstReview(d) BY <1>6 DEF StartPlanningReview
  <2>2. a \in AttemptType /\ a.kind = "planning" /\ a.v = 1
    BY DEF Attempt, AttemptType
  <2>3. CASE StartFirstReview(d) \in {Refused(d), Nothing(d)}
    BY <2>1, <2>3, GoodStill, LeftAlone
  <2>4. CASE StartFirstReview(d) \notin {Refused(d), Nothing(d)}
    <3>1. /\ MayBeginNewSessionTurn(d, "reviewer")
          /\ StartFirstReview(d) = Res(e, At("turn", "reviewer", NoAttempt), FALSE)
      BY <2>4 DEF StartFirstReview
    <3>2. Active(d) = {} /\ d.run.status = "waiting"
      BY <3>1 DEF MayBeginNewSessionTurn
    <3>3. ~Ended(d) /\ Fits(d, "reviewer", a) /\ "reviewer" \in Roles
      BY <1>6, <2>2, <3>2 DEF Ended, RunEnds, Fits, Roles
    <3> HIDE DEF a
    <3>4. Works(d, e, "reviewer", a) BY <1>1, <1>6, <2>2, <3>3, TurnFields
    <3> HIDE DEF e
    <3>5. Good(d, Res(e, At("turn", "reviewer", NoAttempt), FALSE), o)
      BY <1>1, <1>6, <2>2, <3>2, <3>3, <3>4, GoodTurn
    <3>6. QED BY <2>1, <3>1, <3>2, <3>5 DEF LeavesAlone
  <2>5. QED BY <2>3, <2>4
<1>7. QED BY <1>2, <1>4, <1>5, <1>6

\* Rows alike in all that Sound speaks of.
Alike(d, e) ==
    /\ RowsOK(e) /\ e.feature = d.feature /\ e.att = d.att /\ Active(e) = Active(d)
    /\ e.ivs = d.ivs
    /\ e.run.status = d.run.status /\ e.run.kind = d.run.kind /\ e.run.from = d.run.from
    /\ e.run.paused = d.run.paused /\ e.run.version = d.run.version

LEMMA SoundAlike ==
    ASSUME NEW d, NEW e, Alike(d, e), NEW l, NEW o \in BOOLEAN, Sound(d, l, o)
    PROVE  /\ Sound(e, l, o) /\ Forward(d, e)
           /\ Watched(d, l) <=> Watched(e, l)
           /\ Ended(d) <=> Ended(e)
           /\ AllAnswered(d) <=> AllAnswered(e)
<1>1. Ended(d) <=> Ended(e) BY DEF Alike, Ended
<1>2. Blocked(d) <=> Blocked(e) BY DEF Alike, Blocked
<1>3. HasLatest(d) <=> HasLatest(e) BY DEF Alike, HasLatest
<1>4. Latest(d) = Latest(e) BY DEF Alike, Latest
<1>5. \A s : LatestIs(d, s) <=> LatestIs(e, s) BY <1>3, <1>4 DEF Alike, LatestIs
<1>6. \A r : Answering(d, r) <=> Answering(e, r) BY <1>4, <1>5 DEF Alike, Answering
<1>7. \A r : Expected(d, r) <=> Expected(e, r) BY <1>5, <1>6 DEF Alike, Expected
<1>8. AtRestPaused(d) <=> AtRestPaused(e) BY DEF Alike, AtRestPaused
<1>9. InterventionsHold(e, o)
  BY <1>1, <1>5, <1>8 DEF Sound, InterventionsHold, Alike
<1>10. OneAtWork(e, l) BY <1>1 DEF Sound, OneAtWork, Alike
<1>11. RightPlace(e, l) BY <1>3 DEF Sound, RightPlace, Alike
<1>12. WorkIsExpected(e, l, o)
  BY <1>2, <1>6, <1>7 DEF Sound, WorkIsExpected, Alike
<1>13. Watched(d, l) <=> Watched(e, l) BY <1>2 DEF Watched, Alike
<1>14. Forward(d, e) BY <1>3 DEF Forward, Alike
<1>15. QED BY <1>1, <1>9, <1>10, <1>11, <1>12, <1>13, <1>14 DEF Sound, Alike, AllAnswered

LEMMA PlanningTurns ==
    ASSUME NEW d, RowsOK(d)
    PROVE  /\ d.plan.msgs \in Nat /\ d.plan.subs \in Nat /\ d.run.version \in Nat
           /\ LeadMessages(d) + 1 \in Nat /\ ReviewerMessages(d) + 1 \in Nat
<1>1. d.plan \in PlanType /\ d.run \in RunType BY RowFields
<1>2. d.plan.msgs \in Nat /\ d.plan.subs \in Nat /\ d.run.version \in Nat
  BY <1>1 DEF PlanType, RunType
<1> DEFINE m == d.plan.msgs
<1>3. m \div 2 \in Nat /\ (m + 1) \div 2 \in Nat
  <2> HIDE DEF m
  <2>1. m \in Nat BY <1>2 DEF m
  <2>2. QED BY <2>1
<1>4. QED BY <1>2, <1>3 DEF LeadMessages, ReviewerMessages

LEMMA AttemptTyped ==
    ASSUME NEW kind \in {"planning", "approval", "implementation"}, NEW v \in Nat, NEW n \in Nat
    PROVE  /\ Attempt(kind, v, n) \in AttemptType
           /\ Attempt(kind, v, n).kind = kind /\ Attempt(kind, v, n).v = v
BY DEF Attempt, AttemptType

\* One more round.
LEMMA RoundGranted ==
    ASSUME NEW d, RowsOK(d), NEW k \in AnyKey, NEW e, e = ExtendPlanningRoundLimit(d, k)
    PROVE  Alike(d, e) /\ Quiet(d, e)
<1> DEFINE run == [d.run EXCEPT !.limit = d.run.limit + 1]
           acts == d.acts \cup {<<k, "extend">>}
<1>1. d \in RowType /\ d.run \in RunType /\ RunOK(d.run) BY DEF RowsOK, RowType
<1>2. d.run.limit \in Nat /\ d.run.limit + 1 \in Nat BY <1>1 DEF RunType
<1>3. /\ run \in RunType /\ run.status = d.run.status /\ run.kind = d.run.kind
      /\ run.paused = d.run.paused /\ run.from = d.run.from /\ run.version = d.run.version
      /\ run.limit = d.run.limit + 1
  <2> DEFINE n == d.run.limit + 1
  <2>1. n \in Nat BY <1>2
  <2>2. run = [d.run EXCEPT !.limit = n] OBVIOUS
  <2> HIDE DEF n, run
  <2>3. run.limit = n BY <1>1, <2>2 DEF RunType
  <2>4. QED BY <1>1, <2>1, <2>2, <2>3 DEF RunType, n
<1>4. RoundLimit \in Int BY LimitAssumption
<1> HIDE DEF run
<1>5. RunOK(run) BY <1>1, <1>2, <1>3, <1>4 DEF RunOK, RunValid
<1>6. acts \in SUBSET ActionType BY ActFields
<1>7. e = WithRunAnd(d, run, acts)
  BY <1>1 DEF ExtendPlanningRoundLimit, RowType, WithRunAnd, run
<1> HIDE DEF acts
<1>8. RowsOK(e) /\ Beside(d, e) /\ e.ivs = d.ivs /\ e.run = run
  BY <1>3, <1>5, <1>6, <1>7, RunMoves
<1>9. Alike(d, e) BY <1>3, <1>8 DEF Alike, Beside, Active
<1>10. Watched(d, live) => Watched(e, live)
  BY <1>9 DEF Watched, Alike, Blocked
<1>11. QED BY <1>9, <1>10 DEF Quiet, Alike, HasLatest

LEMMA StartPlanningRoundGood ==
    ASSUME NEW d, NEW o \in BOOLEAN, Sound(d, live, o), NEW k \in AnyKey
    PROVE  Good(d, StartPlanningRound(d, k), o) /\ LeavesAlone(d, StartPlanningRound(d, k))
<1> DEFINE capped == d.plan.msgs > 0 /\ planningRoundLimitReached(d) /\ ~d.plan.submitted
           granted == IF capped THEN ExtendPlanningRoundLimit(d, k) ELSE d
           next == IF LastIsLead(d) THEN "reviewer" ELSE "lead"
           turn == IF LastIsLead(d) THEN ReviewerMessages(d) + 1 ELSE LeadMessages(d) + 1
           a == Attempt("planning", d.run.version, turn)
           round == StartPlanningRound(d, k)
           capRun == waitRun(d, "round_cap")
           again == TransitionRun(d, "running", "none")
           place == At("publish", "lead", NoAttempt)
<1>1. RowsOK(d) /\ InterventionsHold(d, o) BY DEF Sound
<1>2. /\ turn \in Nat /\ a \in AttemptType /\ a.kind = "planning" /\ a.v = d.run.version
      /\ next \in Roles
  BY <1>1, PlanningTurns, AttemptTyped DEF Roles
<1>3. Sound(granted, live, o) /\ Quiet(d, granted) /\ Active(granted) = Active(d)
      /\ granted.run.version = d.run.version
  <2>1. CASE capped
    <3>1. Alike(d, granted) /\ Quiet(d, granted) BY <1>1, <2>1, RoundGranted
    <3>2. QED BY <3>1, SoundAlike DEF Alike
  <2>2. CASE ~capped BY <2>2, QuietHere
  <2>3. QED BY <2>1, <2>2
<1>4. CASE d.run.paused \/ d.feature # "planning"
  <2>1. round = Refused(d) BY <1>4 DEF StartPlanningRound
  <2>2. QED BY <2>1, GoodStill, LeftAlone
<1>5. CASE ~d.run.paused /\ d.feature = "planning" /\ d.run.status = "running"
  <2>1. round = Nothing(d) BY <1>5 DEF StartPlanningRound
  <2>2. QED BY <2>1, GoodStill, LeftAlone
<1>6. CASE /\ ~d.run.paused /\ d.feature = "planning" /\ d.run.status # "running"
           /\ d.run.status # "waiting" \/ \E r \in Roles : ~Settled(d, r)
  <2>1. round = Refused(d) BY <1>6 DEF StartPlanningRound
  <2>2. QED BY <2>1, GoodStill, LeftAlone
<1>7. CASE /\ ~d.run.paused /\ d.feature = "planning" /\ d.run.status = "waiting"
           /\ \A r \in Roles : Settled(d, r)
  <2>1. /\ Active(d) = {} /\ Active(granted) = {} /\ ~Ended(d)
        /\ LeavesAlone(d, round)
    BY <1>3, <1>7, BothSettled DEF Roles, Ended, RunEnds, LeavesAlone
  <2>2. Good(d, Refused(granted), o) /\ Good(granted, StartTurn(granted, next, a), o)
        /\ Good(d, Nothing(d), o) /\ Good(d, Refused(d), o)
    <3> HIDE DEF granted, a, next
    <3>1. QED BY <1>2, <1>3, <2>1, GoodHere, GoodStill, StartTurnGood
  <2>3. Good(d, StartTurn(granted, next, a), o)
    <3> HIDE DEF granted, a, next
    <3>1. QED BY <1>3, <2>2, GoodAfter
  <2>4. Good(d, Nothing(capRun), o)
    <3>1. Sound(capRun, live, o) /\ Quiet(d, capRun) BY <2>1, WaitRunQuiet DEF WaitKinds
    <3>2. QED BY <3>1, GoodHere
  <2>5. Good(d, Res(again, place, FALSE), o)
    <3>1. /\ RowsOK(again) /\ Beside(d, again) /\ again.ivs = d.ivs
          /\ again.run.status = "running" /\ ~again.run.paused /\ again.run.version = d.run.version
      BY <1>1, <1>7, RunGoesOn
    <3>2. /\ place \in PlaceType /\ place.pc = "publish"
      BY NamedPlaces, NoAttemptTyped DEF Places, Roles
    <3> HIDE DEF again, place
    <3>3. Active(again) = {} /\ ~Ended(again)
      BY <2>1, <3>1 DEF Active, Beside, Ended, RunEnds
    <3>4. InterventionsHold(again, o)
      <4>1. CASE o BY <4>1 DEF InterventionsHold
      <4>2. CASE ~o
        <5>1. AllAnswered(d) BY <1>1, <1>7, <2>1, <4>2, UnpausedIsAnswered
        <5>2. AllAnswered(again) BY <3>1, <5>1 DEF AllAnswered
        <5>3. QED BY <3>1, <5>2, AnsweredHolds
      <4>3. QED BY <4>1, <4>2
    <3>5. RightPlace(again, place) BY <3>2 DEF RightPlace
    <3>6. Forward(d, again) BY <3>1 DEF Forward, Beside, HasLatest
    <3>7. FALSE \in BOOLEAN OBVIOUS
    <3>8. QED BY <3>1, <3>2, <3>3, <3>4, <3>5, <3>6, <3>7, GoodPlace
  <2>6. round \in {Nothing(capRun), Nothing(d), Refused(d), Refused(granted),
                   Res(again, place, FALSE), StartTurn(granted, next, a)}
    <3>1. round = IF capped /\ d.run.kind # "round_cap" THEN Nothing(capRun)
                  ELSE IF capped /\ (Claimed \/ ~MayExtendRounds(d, k, d.run.limit)) THEN Nothing(d)
                  ELSE IF d.plan.submitted
                  THEN IF d.plan.published THEN Nothing(d)
                       ELSE IF Claimed THEN Refused(d)
                       ELSE Res(again, place, FALSE)
                  ELSE IF d.plan.msgs < 2 \/ (LastIsLead(d) /\ d.plan.msgs < 3) THEN Refused(granted)
                  ELSE IF Completed(next) THEN StartTurn(granted, next, a)
                  ELSE Refused(granted)
      BY <1>7 DEF StartPlanningRound, Nothing
    <3> HIDE DEF capped, capRun, granted, again, place, next, a
    <3>2. QED BY <3>1
  <2>7. QED BY <2>1, <2>2, <2>3, <2>4, <2>5, <2>6
<1>8. QED BY <1>4, <1>5, <1>6, <1>7

LEMMA StartImplementationGood ==
    ASSUME NEW d, NEW o \in BOOLEAN, Sound(d, live, o)
    PROVE  Good(d, StartImplementation(d), o) /\ LeavesAlone(d, StartImplementation(d))
<1> DEFINE first == Attempt("implementation", d.run.version, 1)
           e == [d EXCEPT !.feature = "implementing"]
           l == At("implement", "lead", first)
<1>1. CASE StartImplementation(d) \in {Refused(d), Nothing(d)}
  BY <1>1, GoodStill, LeftAlone
<1>2. CASE StartImplementation(d) \notin {Refused(d), Nothing(d)}
  <2>1. /\ d.run.status = "waiting" /\ Settled(d, "lead") /\ Settled(d, "reviewer")
        /\ StartImplementation(d) = Res(e, l, FALSE)
    BY <1>2 DEF StartImplementation
  <2>2. RowsOK(d) /\ InterventionsHold(d, o) /\ Active(d) = {} /\ d \in RowType
    BY <2>1, BothSettled DEF Sound, RowsOK
  <2>3. first \in AttemptType /\ first.kind = "implementation"
    BY <2>2, PlanningTurns, AttemptTyped
  <2> HIDE DEF first
  <2>4. l \in PlaceType /\ l.pc = "implement" /\ l.next = first
    BY <2>3, NamedPlaces DEF Places, Roles
  <2>5. /\ e \in RowType /\ e.run = d.run /\ e.ivs = d.ivs /\ e.att = d.att
        /\ e.sess = d.sess /\ e.revs = d.revs
    BY <2>2 DEF RowType
  <2> HIDE DEF l, e
  <2>6. RowsOK(e)
    <3>1. SameIvs(d.ivs, e.ivs) BY <2>5, SameIsSame
    <3>2. \A r \in Roles : e.att[r].kind = "intervention" => HasLatest(d)
      BY <2>2, <2>5 DEF RowsOK
    <3>3. IvsOK(e.ivs) /\ RunOK(e.run) BY <2>2, <2>5 DEF RowsOK
    <3>4. QED BY <2>2, <2>5, <3>1, <3>2, <3>3, RowsKept
  <2>7. Active(e) = {} /\ ~Ended(e)
    BY <2>1, <2>2, <2>5 DEF Active, Ended, RunEnds
  <2>8. InterventionsHold(e, o)
    BY <2>1, <2>2, <2>5 DEF InterventionsHold, LatestIs, Latest, HasLatest, AtRestPaused, Ended
  <2>9. RightPlace(e, l) BY <2>3, <2>4 DEF RightPlace
  <2>10. Forward(d, e) BY <2>5 DEF Forward, HasLatest
  <2>11. FALSE \in BOOLEAN OBVIOUS
  <2>12. Good(d, Res(e, l, FALSE), o)
    BY <2>4, <2>6, <2>7, <2>8, <2>9, <2>10, <2>11, GoodPlace
  <2>13. QED BY <2>1, <2>12 DEF LeavesAlone
<1>3. QED BY <1>1, <1>2

LEMMA RecoverIdlePlanningGood ==
    ASSUME NEW d, NEW o \in BOOLEAN, Sound(d, live, o), ~Ended(d)
    PROVE  Good(d, RecoverIdlePlanning(d), o)
<1> DEFINE v == d.run.version
           checkpoint == waitRun(d, "phase_checkpoint")
           capRun == waitRun(d, "round_cap")
           next == IF LastIsLead(d) THEN "reviewer" ELSE "lead"
           turn == IF LastIsLead(d) THEN ReviewerMessages(d) + 1 ELSE LeadMessages(d) + 1
           a == Attempt("planning", v, turn)
           place == At("publish", "lead", NoAttempt)
           result == RecoverIdlePlanning(d)
<1>1. RowsOK(d) /\ InterventionsHold(d, o) BY DEF Sound
<1>2. CASE ~(Settled(d, "lead") /\ Settled(d, "reviewer"))
  <2>1. result = Refused(d) BY <1>2 DEF RecoverIdlePlanning
  <2>2. QED BY <2>1, GoodStill
<1>3. CASE Settled(d, "lead") /\ Settled(d, "reviewer")
  <2>1. Active(d) = {} BY <1>3, BothSettled
  <2>2. /\ turn \in Nat /\ a \in AttemptType /\ a.kind = "planning" /\ a.v = v
        /\ next \in Roles
    BY <1>1, PlanningTurns, AttemptTyped DEF Roles
  <2>3. /\ Sound(checkpoint, live, o) /\ Quiet(d, checkpoint)
        /\ Sound(capRun, live, o) /\ Quiet(d, capRun)
    BY <2>1, WaitRunQuiet DEF WaitKinds
  <2> DEFINE begun == Begun(d, next, a)
             may == MayBeginAutonomousTurn(d, next, d.att[next], "planning", TRUE, FALSE)
  <2>4. /\ Good(d, Refused(d), o) /\ Good(d, Nothing(checkpoint), o) /\ Good(d, Nothing(capRun), o)
    BY <2>3, GoodHere, GoodStill
  <2>5. Good(d, StartPlanningReview(checkpoint), o)
    <3> HIDE DEF checkpoint
    <3>1. QED BY <2>3, StartPlanningReviewGood, GoodAfter
  <2>6. Good(d, StartPlanningRound(checkpoint, "recovery"), o)
    <3> HIDE DEF checkpoint
    <3>1. "recovery" \in AnyKey BY DEF AnyKey
    <3>2. QED BY <2>3, <3>1, StartPlanningRoundGood, GoodAfter
  <2>7. Good(d, Res(d, place, FALSE), o)
    <3>1. place \in PlaceType /\ place.pc = "publish"
      BY NamedPlaces, NoAttemptTyped DEF Places, Roles
    <3> HIDE DEF place
    <3>2. RightPlace(d, place) BY <3>1 DEF RightPlace
    <3>3. FALSE \in BOOLEAN OBVIOUS
    <3>4. QED BY <1>1, <2>1, <3>1, <3>2, <3>3, ForwardStill, GoodPlace
  <2>8. may => Good(d, begun, o)
    <3> SUFFICES ASSUME may PROVE Good(d, begun, o) OBVIOUS
    <3>1. ~d.run.paused /\ d.feature = "planning" BY DEF MayBeginAutonomousTurn
    <3>2. Fits(d, next, a) BY <2>2, <3>1 DEF Fits
    <3> HIDE DEF a, next
    <3>3. Works(d, BeginAutonomousTurn(d, next, a), next, a)
      BY <1>1, <2>2, <3>1, TurnFields
    <3>4. QED BY <1>1, <2>1, <2>2, <3>1, <3>2, <3>3, GoodTurn DEF Begun
  <2>9. \/ result \in {Refused(d), Nothing(checkpoint), Nothing(capRun),
                       StartPlanningReview(checkpoint), StartPlanningRound(checkpoint, "recovery"),
                       Res(d, place, FALSE)}
        \/ may /\ result = begun
    <3>1. result = IF d.plan.msgs < 2
                   THEN IF v > 1 /\ d.plan.msgs = 1
                        THEN IF Autonomous /\ ~d.run.paused THEN StartPlanningReview(checkpoint)
                             ELSE Nothing(checkpoint)
                        ELSE Refused(d)
                   ELSE IF d.plan.submitted
                   THEN IF Claimed THEN Refused(d) ELSE Res(d, place, FALSE)
                   ELSE IF planningRoundLimitReached(d) THEN Nothing(capRun)
                   ELSE IF d.plan.msgs = 2
                   THEN IF Autonomous /\ ~d.run.paused
                        THEN StartPlanningRound(checkpoint, "recovery") ELSE Nothing(checkpoint)
                   ELSE IF ~Claimed /\ may THEN begun ELSE Refused(d)
      BY <1>3 DEF RecoverIdlePlanning
    <3> HIDE DEF checkpoint, capRun, place, begun, may, result, v
    <3>2. QED BY <3>1
  <2> HIDE DEF result, begun, may, checkpoint, capRun, place
  <2>10. QED BY <2>4, <2>5, <2>6, <2>7, <2>8, <2>9 DEF result
<1>4. QED BY <1>2, <1>3

LEMMA AdvanceWaitingRunGood ==
    ASSUME NEW d, NEW o \in BOOLEAN, Sound(d, live, o)
    PROVE  Good(d, AdvanceWaitingRun(d), o) /\ LeavesAlone(d, AdvanceWaitingRun(d))
<1> DEFINE result == AdvanceWaitingRun(d)
<1>1. CASE Deliverable(d)
  <2>1. result = AdvanceIntervention(d) /\ d.run.status = "waiting"
    BY <1>1 DEF AdvanceWaitingRun, Deliverable, AtRestPaused
  <2>2. QED BY <1>1, <2>1, AdvanceInterventionGood DEF LeavesAlone
<1>2. CASE ~Deliverable(d) /\ d.run.status # "waiting"
  <2>1. result = Nothing(d) BY <1>2 DEF AdvanceWaitingRun
  <2>2. QED BY <2>1, GoodStill, LeftAlone
<1>3. CASE ~Deliverable(d) /\ d.run.status = "waiting"
  <2>1. ~Ended(d) /\ LeavesAlone(d, result) BY <1>3 DEF Ended, RunEnds, LeavesAlone
  <2>2. result \in {Nothing(d), Refused(d), StartImplementation(d), StartPlanningReview(d),
                    StartPlanningRound(d, "autonomy"), RecoverIdlePlanning(d)}
    BY <1>3 DEF AdvanceWaitingRun
  <2>3. "autonomy" \in AnyKey BY DEF AnyKey
  <2> HIDE DEF result
  <2>4. QED
    BY <2>1, <2>2, <2>3, GoodStill, StartImplementationGood, StartPlanningReviewGood,
       StartPlanningRoundGood, RecoverIdlePlanningGood DEF result
<1>4. QED BY <1>1, <1>2, <1>3

LEMMA RecoverActiveGood ==
    ASSUME NEW d, NEW o \in BOOLEAN, Sound(d, live, o), ~Ended(d), NEW r \in Roles,
           Active(d) \subseteq {r}
    PROVE  /\ Good(d, RecoverActive(d, r), o)
           /\ ~Claimed /\ Expected(d, r) =>
                 Watched(RecoverActive(d, r).d, RecoverActive(d, r).l)
<1> DEFINE l == At("reattach", r, NoAttempt)
<1>1. RecoverActive(d, r) = IF Expected(d, r) /\ ~Claimed THEN Res(d, l, FALSE) ELSE Refused(d)
  BY DEF RecoverActive, Expected, Answering, LatestIs
<1>2. CASE Expected(d, r) /\ ~Claimed
  <2>1. l \in PlaceType /\ l.pc = "reattach" /\ l.role = r
    BY NamedPlaces, NoAttemptTyped DEF Places
  <2> HIDE DEF l
  <2>2. OneAtWork(d, l) BY <2>1 DEF Sound, OneAtWork
  <2>3. RightPlace(d, l) BY <2>1 DEF RightPlace
  <2>4. WorkIsExpected(d, l, o) BY <1>2, <2>1 DEF Sound, WorkIsExpected
  <2>5. Sound(d, l, o) BY <2>1, <2>2, <2>3, <2>4 DEF Sound
  <2>6. Watched(d, l) BY <2>1 DEF Watched
  <2>7. d \in RowType BY DEF Sound, RowsOK
  <2>8. Res(d, l, FALSE) \in ResType /\ Res(d, l, FALSE).d = d /\ Res(d, l, FALSE).l = l
    BY <2>1, <2>7 DEF Res, ResType
  <2>9. QED BY <1>1, <1>2, <2>5, <2>6, <2>8, ForwardStill DEF Good
<1>3. CASE ~(Expected(d, r) /\ ~Claimed) BY <1>1, <1>3, GoodStill
<1>4. QED BY <1>2, <1>3

\* Recover leaves a sound state; and when it is the one to take the run up,
\* whoever is at work is watched again, or held for the user.
LEMMA RecoverGood ==
    ASSUME NEW d, NEW o \in BOOLEAN, Sound(d, live, o), ~Ended(d), ~Claimed
    PROVE  Good(d, Recover(d), o) /\ (o \/ Watched(Recover(d).d, Recover(d).l))
<1> DEFINE result == Recover(d)
           rested == waitRun(d, "phase_checkpoint")
           r == CHOOSE x \in Roles : x \in Active(d)
<1>1. RowsOK(d) /\ InterventionsHold(d, o) /\ OneAtWork(d, live) /\ WorkIsExpected(d, live, o)
  BY DEF Sound
<1>2. CASE Active(d) = {}
  <2>1. Watched(d, live) BY <1>2 DEF Watched
  <2>2. Good(d, result, o) => o \/ Watched(result.d, result.l) BY <2>1 DEF Good
  <2>3. Sound(rested, live, o) /\ Quiet(d, rested) BY <1>2, WaitRunQuiet DEF WaitKinds
  <2>4. Good(d, Nothing(d), o) /\ Good(d, Refused(d), o) /\ Good(d, Nothing(rested), o)
    BY <2>3, GoodStill, GoodHere
  <2>5. Deliverable(d) => Good(d, AdvanceIntervention(d), o) BY AdvanceInterventionGood
  <2>6. Deliverable(rested) => Good(d, AdvanceIntervention(rested), o)
    <3> HIDE DEF rested
    <3>1. QED BY <2>3, AdvanceInterventionGood, GoodAfter
  <2>7. Good(d, AdvanceWaitingRun(d), o) BY AdvanceWaitingRunGood
  <2>8. Good(d, RecoverIdlePlanning(d), o) BY RecoverIdlePlanningGood
  <2>9. Good(d, RecoverActive(d, "lead"), o) BY <1>2, RecoverActiveGood DEF Roles
  <2>10. \/ result \in {Nothing(d), Refused(d), Nothing(rested), AdvanceWaitingRun(d),
                        RecoverIdlePlanning(d), RecoverActive(d, "lead")}
         \/ Deliverable(d) /\ result = AdvanceIntervention(d)
         \/ Deliverable(rested) /\ result = AdvanceIntervention(rested)
    BY <1>2 DEF Recover, Deliverable
  <2> HIDE DEF result, rested
  <2>11. QED BY <2>2, <2>4, <2>5, <2>6, <2>7, <2>8, <2>9, <2>10 DEF result
<1>3. CASE Active(d) # {} /\ HasLatest(d) /\ d.ivs[Latest(d)].status = "queued"
  <2>1. LatestIs(d, "queued") BY <1>3 DEF LatestIs
  <2>2. Good(d, result, o)
    <3>1. CASE AtRestPaused(d)
      <4>1. Deliverable(d) /\ result = AdvanceIntervention(d)
        BY <1>3, <3>1 DEF Recover, Deliverable
      <4>2. QED BY <4>1, AdvanceInterventionGood
    <3>2. CASE ~AtRestPaused(d)
      <4>1. result = Nothing(d) BY <1>3, <3>2 DEF Recover
      <4>2. QED BY <4>1, GoodStill
    <3>3. QED BY <3>1, <3>2
  <2>3. CASE ~o
    <3>1. AtRestPaused(d) BY <1>1, <2>1, <2>3 DEF InterventionsHold
    <3>2. result = Refused(d)
      BY <1>3, <3>1 DEF Recover, AdvanceIntervention, MayBeginInterventionTurn
    <3>3. result.d = d /\ result.l = live BY <3>2 DEF Refused, Res
    <3>4. \A x \in Active(d) : ~Answering(d, x)
      BY <1>3 DEF Answering, LatestIs
    <3>5. Watched(d, live)
      BY <1>1, <2>3, <3>1, <3>4 DEF WorkIsExpected, Watched, AtRestPaused
    <3>6. QED BY <2>2, <3>3, <3>5
  <2>4. QED BY <2>2, <2>3
<1>4. CASE /\ Active(d) # {} /\ ~(HasLatest(d) /\ d.ivs[Latest(d)].status = "queued")
           /\ d.run.status = "waiting" /\ ~d.run.paused /\ d.run.kind = "phase_checkpoint" /\ Autonomous
  <2>1. result = AdvanceWaitingRun(d) BY <1>4 DEF Recover
  <2>2. Good(d, result, o) BY <2>1, AdvanceWaitingRunGood
  <2>3. o
    <3> SUFFICES ASSUME ~o PROVE FALSE OBVIOUS
    <3>1. PICK x \in Active(d) : TRUE BY <1>4
    <3>2. Blocked(d) \/ Answering(d, x) BY <1>1, <1>4, <3>1 DEF WorkIsExpected
    <3>3. ~Blocked(d)
      BY <1>1, <1>4 DEF Blocked, RowsOK, RunOK, RunValid
    <3>4. AllAnswered(d) BY <1>1, <1>4, UnpausedIsAnswered
    <3>5. QED BY <1>1, <3>2, <3>3, <3>4, AnsweredHolds DEF Answering
  <2>4. QED BY <2>2, <2>3
<1>5. CASE /\ Active(d) # {} /\ ~(HasLatest(d) /\ d.ivs[Latest(d)].status = "queued")
           /\ ~(d.run.status = "waiting" /\ ~d.run.paused /\ d.run.kind = "phase_checkpoint" /\ Autonomous)
  <2>1. result = RecoverActive(d, r)
    <3> HIDE DEF r
    <3>1. QED BY <1>5 DEF Recover, r
  <2>2. r \in Roles /\ r \in Active(d) BY <1>5 DEF Active
  <2> HIDE DEF r
  <2>3. Active(d) \subseteq {r} BY <1>1, <2>2 DEF OneAtWork
  <2>4. o \/ Expected(d, r) BY <1>1, <2>2 DEF WorkIsExpected
  <2>5. QED BY <2>1, <2>2, <2>3, <2>4, RecoverActiveGood
<1>6. QED BY <1>2, <1>3, <1>4, <1>5

-----------------------------------------------------------------------------
(* What follows a turn.                                                    *)

\* Nobody is at work in a run that has not ended.
Resting(d, o) == RowsOK(d) /\ InterventionsHold(d, o) /\ Active(d) = {} /\ ~Ended(d)

LEMMA GoodWait ==
    ASSUME NEW d, NEW o \in BOOLEAN, Resting(d, o), NEW kind \in WaitKinds, NEW r \in Roles,
           NEW err \in BOOLEAN
    PROVE  Good(d, Res(waitRun(d, kind), At("release", r, NoAttempt), err), o)
<1> DEFINE e == waitRun(d, kind)
           l == At("release", r, NoAttempt)
<1>1. RowsOK(d) /\ InterventionsHold(d, o) /\ Active(d) = {} /\ ~Ended(d) BY DEF Resting
<1>2. RowsOK(e) /\ Beside(d, e) /\ e.run.paused = d.run.paused /\ e.run.version = d.run.version
  BY <1>1, WaitRun
<1>3. InterventionsHold(e, o) /\ Active(e) = {} /\ ~Ended(e) /\ (HasLatest(d) => HasLatest(e))
  BY <1>1, WaitRunHolds
<1>4. l \in PlaceType /\ l.pc = "release" BY NamedPlaces, NoAttemptTyped DEF Places
<1> HIDE DEF e, l
<1>5. RightPlace(e, l) /\ Forward(d, e) BY <1>2, <1>3, <1>4 DEF RightPlace, Forward, Beside
<1>6. Good(d, Res(e, l, err), o) BY <1>2, <1>3, <1>4, <1>5, GoodPlace
<1>7. QED BY <1>6 DEF e, l

LEMMA GoodChain ==
    ASSUME NEW d, NEW o \in BOOLEAN, Resting(d, o), NEW r \in Roles, NEW a \in AttemptType,
           a.kind \in {"planning", "approval"}, a.v = d.run.version
    PROVE  Good(d, Res(d, At("chain", r, a), FALSE), o)
<1> DEFINE l == At("chain", r, a)
<1>1. RowsOK(d) /\ InterventionsHold(d, o) /\ Active(d) = {} /\ ~Ended(d) BY DEF Resting
<1>2. l \in PlaceType /\ l.pc = "chain" /\ l.next = a BY NamedPlaces DEF Places
<1> HIDE DEF l
<1>3. RightPlace(d, l) BY <1>2 DEF RightPlace
<1>4. FALSE \in BOOLEAN OBVIOUS
<1>5. Good(d, Res(d, l, FALSE), o) BY <1>1, <1>2, <1>3, <1>4, ForwardStill, GoodPlace
<1>6. QED BY <1>5 DEF l

\* The plan's messages are the run's own business.
LEMMA PlanMoves ==
    ASSUME NEW d, RowsOK(d), NEW plan \in PlanType, NEW e, e = [d EXCEPT !.plan = plan]
    PROVE  Alike(d, e)
<1>1. d \in RowType BY DEF RowsOK
<1>2. e \in RowType /\ e.run = d.run /\ e.ivs = d.ivs /\ Beside(d, e)
  BY <1>1 DEF RowType, Beside
<1>3. RowsOK(e) BY <1>2, CoreKept DEF SameCore
<1>4. QED BY <1>2, <1>3 DEF Alike, Beside, Active

LEMMA RestingAlike ==
    ASSUME NEW d, NEW e, Alike(d, e), NEW o \in BOOLEAN, Resting(d, o)
    PROVE  Resting(e, o) /\ Quiet(d, e)
<1>1. Idle \in PlaceType /\ Idle.pc = "idle"
  BY DEF Idle, PlaceType, Places, AnyKey, Roles, AttemptType, NoAttempt
<1>2. Sound(d, Idle, o)
  <2>1. RightPlace(d, Idle) BY <1>1 DEF RightPlace
  <2>2. QED BY <1>1, <2>1, RestIsSound DEF Resting
<1>3. Sound(e, Idle, o) /\ (Ended(d) <=> Ended(e)) BY <1>2, SoundAlike
<1>4. Resting(e, o) BY <1>3 DEF Resting, Sound, Alike
<1>5. Watched(e, live) BY <1>4 DEF Watched, Resting
<1>6. QED BY <1>4, <1>5 DEF Quiet, Alike, HasLatest

LEMMA NextSpeakerGood ==
    ASSUME NEW d, NEW o \in BOOLEAN, Resting(d, o)
    PROVE  Good(d, NextSpeaker(d), o)
<1> DEFINE v == d.run.version
           a == Attempt("planning", v, ReviewerMessages(d) + 1)
           b == Attempt("planning", v, LeadMessages(d) + 1)
           away == At("release", "lead", NoAttempt)
<1>1. RowsOK(d) BY DEF Resting
<1>2. /\ a \in AttemptType /\ a.kind = "planning" /\ a.v = v
      /\ b \in AttemptType /\ b.kind = "planning" /\ b.v = v
  BY <1>1, PlanningTurns, AttemptTyped
<1>3. /\ Good(d, Res(waitRun(d, "phase_checkpoint"), away, FALSE), o)
      /\ Good(d, Res(waitRun(d, "round_cap"), away, FALSE), o)
  <2>1. FALSE \in BOOLEAN /\ "lead" \in Roles BY DEF Roles
  <2>2. QED BY <2>1, GoodWait DEF WaitKinds
<1> HIDE DEF a, b
<1>4. /\ Good(d, Res(d, At("chain", "reviewer", a), FALSE), o)
      /\ Good(d, Res(d, At("chain", "lead", b), FALSE), o)
  BY <1>2, GoodChain DEF Roles
<1>5. NextSpeaker(d) \in {Res(waitRun(d, "phase_checkpoint"), away, FALSE),
                          Res(waitRun(d, "round_cap"), away, FALSE),
                          Res(d, At("chain", "reviewer", a), FALSE),
                          Res(d, At("chain", "lead", b), FALSE)}
  BY DEF NextSpeaker, a, b
<1>6. QED BY <1>3, <1>4, <1>5

LEMMA ContinueSubmittedPlanGood ==
    ASSUME NEW d, NEW o \in BOOLEAN, Resting(d, o)
    PROVE  Good(d, ContinueSubmittedPlan(d), o)
<1> DEFINE approval == Attempt("approval", d.run.version, d.plan.subs)
           published == [d EXCEPT !.plan = [d.plan EXCEPT !.published = TRUE]]
           returned == [d EXCEPT !.plan = [d.plan EXCEPT !.msgs = d.plan.msgs + 1, !.submitted = FALSE]]
           away == At("release", "lead", NoAttempt)
<1>1. RowsOK(d) /\ d \in RowType /\ d.plan \in PlanType BY RowFields DEF Resting, RowsOK
<1>2. /\ approval \in AttemptType /\ approval.kind = "approval" /\ approval.v = d.run.version
  BY <1>1, PlanningTurns, AttemptTyped
<1>3. Resting(published, o) /\ Quiet(d, published)
  <2>1. [d.plan EXCEPT !.published = TRUE] \in PlanType BY <1>1 DEF PlanType
  <2>2. Alike(d, published) BY <1>1, <2>1, PlanMoves
  <2>3. QED BY <2>2, RestingAlike
<1>4. Resting(returned, o) /\ Quiet(d, returned)
  <2> DEFINE n == d.plan.msgs + 1
             plan == [d.plan EXCEPT !.msgs = n, !.submitted = FALSE]
  <2>1. n \in Nat BY <1>1 DEF PlanType
  <2>2. returned = [d EXCEPT !.plan = plan] BY DEF returned
  <2>3. plan \in PlanType
    <3> HIDE DEF n
    <3>1. QED BY <1>1, <2>1 DEF PlanType
  <2> HIDE DEF plan, returned
  <2>4. Alike(d, returned) BY <1>1, <2>2, <2>3, PlanMoves
  <2>5. QED BY <2>4, RestingAlike
<1>5. /\ Good(d, Res(waitRun(d, "phase_checkpoint"), away, FALSE), o)
      /\ Good(d, Res(waitRun(d, "blocker"), away, TRUE), o)
  <2>1. FALSE \in BOOLEAN /\ TRUE \in BOOLEAN /\ "lead" \in Roles BY DEF Roles
  <2>2. QED BY <2>1, GoodWait DEF WaitKinds
<1>6. Good(d, Res(waitRun(published, "phase_checkpoint"), away, FALSE), o)
  <2> HIDE DEF published
  <2>1. FALSE \in BOOLEAN /\ "lead" \in Roles BY DEF Roles
  <2>2. QED BY <1>3, <2>1, GoodWait, GoodAfter DEF WaitKinds
<1>7. Good(d, NextSpeaker(returned), o)
  <2> HIDE DEF returned
  <2>1. QED BY <1>4, NextSpeakerGood, GoodAfter
<1>8. Good(d, Res(d, At("chain", "reviewer", approval), FALSE), o)
  <2> HIDE DEF approval
  <2>1. QED BY <1>2, GoodChain DEF Roles
<1>9. published = [d EXCEPT !.plan.published = TRUE] BY <1>1 DEF RowType
<1>10. ContinueSubmittedPlan(d) \in
         {Res(waitRun(d, "phase_checkpoint"), away, FALSE), Res(waitRun(d, "blocker"), away, TRUE),
          Res(waitRun(published, "phase_checkpoint"), away, FALSE), NextSpeaker(returned),
          Res(d, At("chain", "reviewer", approval), FALSE)}
  <2> DEFINE asked == /\ d.att["reviewer"].kind = "approval" /\ d.att["reviewer"].v = d.run.version
                      /\ d.att["reviewer"].n = d.plan.subs
  <2>2. ContinueSubmittedPlan(d)
          = CASE d.plan.published -> Res(waitRun(d, "phase_checkpoint"), away, FALSE)
              [] ~d.plan.published /\ asked /\ outcome["reviewer"] = "completed" ->
                   Res(waitRun(published, "phase_checkpoint"), away, FALSE)
              [] ~d.plan.published /\ asked /\ outcome["reviewer"] = "changes" -> NextSpeaker(returned)
              [] ~d.plan.published /\ ~asked /\ d.run.paused ->
                   Res(waitRun(d, "phase_checkpoint"), away, FALSE)
              [] ~d.plan.published /\ ~asked /\ ~d.run.paused /\ Settled(d, "reviewer") ->
                   Res(d, At("chain", "reviewer", approval), FALSE)
              [] OTHER -> Res(waitRun(d, "blocker"), away, TRUE)
    BY <1>9 DEF ContinueSubmittedPlan
  <2> HIDE DEF asked, returned, published, approval, away
  <2>3. QED BY <2>2
<1> HIDE DEF returned, published, approval, away
<1>11. QED BY <1>5, <1>6, <1>7, <1>8, <1>10

\* A message joins the discussion.
LEMMA MessageLinked ==
    ASSUME NEW d, RowsOK(d), NEW r \in Roles, NEW submits \in BOOLEAN
    PROVE  Alike(d, LinkPlanningMessage(d, r, submits))
<1> DEFINE a == d.att[r]
           place == IF r = "lead" THEN 2 * a.n - 1 ELSE 2 * a.n
           subs == IF submits THEN d.plan.subs + 1 ELSE d.plan.subs
           plan == [d.plan EXCEPT !.msgs = place, !.submitted = submits, !.published = FALSE,
                                  !.subs = subs]
           e == LinkPlanningMessage(d, r, submits)
<1>1. d \in RowType /\ d.plan \in PlanType /\ a \in AttemptType /\ d.plan.msgs \in Nat
      /\ d.plan.subs \in Nat /\ a.n \in Nat
  BY RowFields, PlanningTurns DEF RowsOK, AttemptType
<1>2. CASE place <= d.plan.msgs
  <2>1. e = d BY <1>2 DEF LinkPlanningMessage
  <2>2. QED BY <2>1 DEF Alike
<1>3. CASE ~(place <= d.plan.msgs)
  <2>1. place \in Int BY <1>1
  <2>2. place \in Nat /\ subs \in Nat BY <1>1, <1>3, <2>1
  <2>3. e = [d EXCEPT !.plan = plan]
    BY <1>3 DEF LinkPlanningMessage
  <2>4. plan \in PlanType
    <3> HIDE DEF place, subs
    <3>1. QED BY <1>1, <2>2 DEF PlanType
  <2> HIDE DEF plan, e
  <2>5. QED BY <2>3, <2>4, PlanMoves DEF e
<1>4. QED BY <1>2, <1>3

\* The session of a turn that ended rests.
LEMMA SessionRests ==
    ASSUME NEW d, NEW l, NEW o \in BOOLEAN, Sound(d, l, o), ~Ended(d), NEW r \in Roles,
           Active(d) \subseteq {r}, NEW e, e = TransitionSession(d, r, "waiting")
    PROVE  /\ Resting(e, o) /\ Quiet(d, e)
           /\ e.run = d.run /\ e.ivs = d.ivs /\ e.att = d.att /\ e.feature = d.feature
<1>1. RowsOK(d) /\ InterventionsHold(d, o) BY DEF Sound
<1>2. PICK s \in SessionType : s.status = "waiting" /\ e = WithSession(d, r, s)
  BY <1>1, SessionStands DEF SessionStatuses
<1>4. /\ RowsOK(e)
      /\ e.run = d.run /\ e.ivs = d.ivs /\ e.att = d.att
      /\ e.feature = d.feature /\ e.revs = d.revs
      /\ Active(e) = IF s.status \in {"absent", "waiting"} \cup SessionEnds
                     THEN Active(d) \ {r} ELSE Active(d) \cup {r}
  BY <1>1, <1>2, SessionMoves
<1>5. Active(e) = {} BY <1>2, <1>4
<1>6. ~Ended(e) BY <1>4 DEF Ended
<1>7. InterventionsHold(e, o)
  BY <1>1, <1>4, <1>6 DEF InterventionsHold, LatestIs, Latest, HasLatest, AtRestPaused, Ended
<1>8. Quiet(d, e) BY <1>4, <1>5 DEF Quiet, Watched, HasLatest
<1>9. QED BY <1>4, <1>5, <1>6, <1>7, <1>8 DEF Resting

LEMMA FinishedGood ==
    ASSUME NEW d0, NEW o \in BOOLEAN, Sound(d0, live, o), ~Ended(d0), NEW r \in Roles,
           Active(d0) \subseteq {r}, NEW submits \in BOOLEAN
    PROVE  Good(d0, Finished(d0, r, submits), o)
<1> DEFINE stage == planningStageForAttempt(r, d0.att[r])
           linked == IF stage \in {"none", "approval"} THEN d0 ELSE LinkPlanningMessage(d0, r, submits)
           d == TransitionSession(linked, r, "waiting")
           rest == Res(waitRun(d, "phase_checkpoint"), At("release", r, NoAttempt), FALSE)
<1>1. RowsOK(d0) BY DEF Sound
<1>2. Alike(d0, linked)
  <2>1. CASE stage \in {"none", "approval"} BY <1>1, <2>1 DEF Alike
  <2>2. CASE stage \notin {"none", "approval"} BY <1>1, <2>2, MessageLinked
  <2>3. QED BY <2>1, <2>2
<1> HIDE DEF linked
<1>3. Sound(linked, live, o) /\ ~Ended(linked) /\ Active(linked) \subseteq {r}
      /\ Quiet(d0, linked)
  <2>1. /\ Sound(linked, live, o) /\ Forward(d0, linked)
        /\ Watched(d0, live) <=> Watched(linked, live)
        /\ Ended(d0) <=> Ended(linked)
    BY <1>2, SoundAlike
  <2>2. QED BY <1>2, <2>1 DEF Alike, Quiet, HasLatest
<1>4. Resting(d, o) /\ Quiet(linked, d) BY <1>3, SessionRests
<1> HIDE DEF d
<1>5. Quiet(d0, d) BY <1>3, <1>4 DEF Quiet
<1>6. Good(d, ContinueSubmittedPlan(d), o) /\ Good(d, NextSpeaker(d), o)
  BY <1>4, ContinueSubmittedPlanGood, NextSpeakerGood
<1>7. Good(d, rest, o)
  <2>1. FALSE \in BOOLEAN OBVIOUS
  <2>2. QED BY <1>4, <2>1, GoodWait DEF WaitKinds
<1>8. Finished(d0, r, submits) \in {ContinueSubmittedPlan(d), NextSpeaker(d), rest}
  <2>1. Finished(d0, r, submits)
          = CASE stage = "approval" \/ (stage = "lead_response" /\ d.plan.submitted) -> ContinueSubmittedPlan(d)
              [] stage = "lead_response" /\ ~d.plan.submitted -> NextSpeaker(d)
              [] stage = "reviewer_response" -> NextSpeaker(d)
              [] OTHER -> rest
    BY DEF Finished, linked, d
  <2> HIDE DEF rest, stage
  <2>2. QED BY <2>1
<1> HIDE DEF rest
<1>9. QED BY <1>5, <1>6, <1>7, <1>8, GoodAfter

\* The goroutine of r lets the run go.
LEMMA ReleaseIsSound ==
    ASSUME NEW d, NEW l, NEW o \in BOOLEAN, Sound(d, l, o), NEW r \in Roles,
           Active(d) \subseteq {r}
    PROVE  Sound(d, At("release", r, NoAttempt), o)
<1> DEFINE m == At("release", r, NoAttempt)
<1>1. m \in PlaceType /\ m.pc = "release" /\ m.role = r
  BY NamedPlaces, NoAttemptTyped DEF Places
<1> HIDE DEF m
<1>2. OneAtWork(d, m) /\ RightPlace(d, m) BY <1>1 DEF Sound, OneAtWork, RightPlace
<1>3. WorkIsExpected(d, m, o) BY <1>1 DEF Sound, WorkIsExpected
<1>4. Sound(d, m, o) BY <1>1, <1>2, <1>3 DEF Sound
<1>5. QED BY <1>4 DEF m

\* A turn that is held for the user.
LEMMA BlockedTurn ==
    ASSUME NEW d, NEW o \in BOOLEAN, Sound(d, live, o), NEW r \in Roles,
           Active(d) \subseteq {r}, NEW m, Alike(d, m), NEW err \in BOOLEAN
    PROVE  Good(d, Res(waitRun(m, "blocker"), At("release", r, NoAttempt), err), o)
<1> DEFINE l == At("release", r, NoAttempt)
           e == waitRun(m, "blocker")
<1>1. /\ Sound(m, live, o) /\ Forward(d, m)
      /\ m.att = d.att /\ m.run.paused = d.run.paused /\ m.run.version = d.run.version
  BY SoundAlike DEF Alike
<1>2. Active(m) \subseteq {r} BY DEF Alike
<1>3. Sound(m, l, o) BY <1>1, <1>2, ReleaseIsSound
<1>4. l \in PlaceType BY <1>3 DEF Sound
<1>5. Sound(e, l, o) /\ Forward(m, e) /\ Watched(e, l)
  BY <1>3, WaitRunSound DEF WaitKinds
<1>6. Forward(d, e) BY <1>1, <1>5 DEF Forward
<1> HIDE DEF e, l
<1>7. Res(e, l, err) \in ResType /\ Res(e, l, err).d = e /\ Res(e, l, err).l = l
  BY <1>4, <1>5, ResFields DEF Sound, RowsOK
<1>8. Good(d, Res(e, l, err), o) BY <1>5, <1>6, <1>7 DEF Good
<1>9. QED BY <1>8 DEF e, l

\* A session that works on is held.
LEMMA SessionHeld ==
    ASSUME NEW d, RowsOK(d), NEW r \in Roles, r \in Active(d), NEW s \in SessionType,
           s.status \notin {"absent", "waiting"} \cup SessionEnds,
           NEW e, e = WithSession(d, r, s)
    PROVE  Alike(d, e)
<1>1. /\ RowsOK(e)
      /\ e.run = d.run /\ e.ivs = d.ivs /\ e.att = d.att /\ e.feature = d.feature
      /\ Active(e) = IF s.status \in {"absent", "waiting"} \cup SessionEnds
                     THEN Active(d) \ {r} ELSE Active(d) \cup {r}
  BY SessionMoves
<1>2. QED BY <1>1 DEF Alike

LEMMA HeldForTheUser ==
    ASSUME NEW d, NEW o \in BOOLEAN, Sound(d, live, o), NEW r \in Roles,
           Active(d) \subseteq {r}, NEW err \in BOOLEAN
    PROVE  /\ Good(d, Res(RequireReview(d, r), At("release", r, NoAttempt), err), o)
           /\ Good(d, Res(PauseFailedTurn(d, r), At("release", r, NoAttempt), err), o)
<1> DEFINE held == WithStatus(d, r, "pause_requested")
           named == TransitionSession(d, r, "pause_requested")
<1>1. RowsOK(d) BY DEF Sound
<1>2. /\ \E s \in SessionType : s.status = "pause_requested" /\ named = WithSession(d, r, s)
      /\ \E s \in SessionType : s.status = "pause_requested" /\ held = WithSession(d, r, s)
  BY <1>1, SessionStands DEF SessionStatuses
<1>3. d.sess[r].status \in {"running", "starting"} => r \in Active(d) BY DEF Active, SessionEnds
<1>4. d.sess[r].status \in {"running", "starting"} => Alike(d, held) /\ Alike(d, named)
  <2> SUFFICES ASSUME r \in Active(d) PROVE Alike(d, held) /\ Alike(d, named) BY <1>3
  <2> HIDE DEF held, named
  <2>1. "pause_requested" \notin {"absent", "waiting"} \cup SessionEnds BY DEF SessionEnds
  <2>2. QED BY <1>1, <1>2, <2>1, SessionHeld
<1>5. Alike(d, d) BY <1>1 DEF Alike
<1> HIDE DEF held, named
<1>6. PICK m : Alike(d, m) /\ RequireReview(d, r) = waitRun(m, "blocker")
  <2>1. RequireReview(d, r) = waitRun(IF d.sess[r].status = "running" THEN held ELSE d, "blocker")
    BY DEF RequireReview, held
  <2>2. QED BY <1>4, <1>5, <2>1
<1>7. PICK n : Alike(d, n) /\ PauseFailedTurn(d, r) = waitRun(n, "blocker")
  <2>1. PauseFailedTurn(d, r) = waitRun(IF d.sess[r].status = "starting" THEN named
                                        ELSE IF d.sess[r].status = "running" THEN held ELSE d, "blocker")
    BY DEF PauseFailedTurn, held, named, TransitionSession
  <2>2. QED BY <1>4, <1>5, <2>1
<1>8. QED BY <1>6, <1>7, BlockedTurn

-----------------------------------------------------------------------------
(* Steps.                                                                  *)

\* What Apply writes beside the result: the work of each role, and what the
\* worker says of an attempt that begins.
LEMMA ApplyFields ==
    ASSUME IInv, NEW res, res \in ResType, RowsOK(res.d), Apply(res)
    PROVE  /\ Alike(res.d, db') /\ live' = res.l
           /\ outcome' \in [Roles -> Outcomes]
<1> DEFINE work == [r \in Roles |-> IF res.d.att[r].kind = "intervention" THEN db.work[r]
                                    ELSE res.d.att[r]]
<1>1. res.d \in RowType /\ res.d.att \in [Roles -> AttemptType] /\ db.work \in [Roles -> AttemptType]
  BY DEF RowsOK, RowType, IInv, Sound
<1>2. work \in [Roles -> AttemptType] BY <1>1
<1>3. db' = [res.d EXCEPT !.work = work] BY DEF Apply
<1> HIDE DEF work
<1>4. db' \in RowType /\ db'.run = res.d.run /\ db'.ivs = res.d.ivs /\ Beside(res.d, db')
  BY <1>1, <1>2, <1>3 DEF RowType, Beside
<1>5. RowsOK(db') BY <1>4, CoreKept DEF SameCore
<1>6. Alike(res.d, db') BY <1>4, <1>5 DEF Alike, Beside, Active
<1>7. outcome' \in [Roles -> Outcomes]
  <2> DEFINE said(r) == IF res.d.att[r] # db.att[r]
                        THEN IF \E k \in known : k.att = res.d.att[r] /\ r = "reviewer"
                             THEN (CHOOSE k \in known : k.att = res.d.att[r]).out ELSE "live"
                        ELSE outcome[r]
  <2>1. outcome' = [r \in Roles |-> said(r)] BY DEF Apply
  <2>2. ASSUME NEW r \in Roles PROVE said(r) \in Outcomes
    <3>1. outcome[r] \in Outcomes /\ "live" \in Outcomes BY DEF IInv, MemoryOK, Outcomes
    <3>2. ASSUME \E k \in known : k.att = res.d.att[r]
          PROVE  (CHOOSE k \in known : k.att = res.d.att[r]).out \in Outcomes
      <4> DEFINE c == CHOOSE k \in known : k.att = res.d.att[r]
      <4>1. c \in known BY <3>2
      <4> HIDE DEF c
      <4>2. known \subseteq [att : AttemptType, out : Outcomes] BY DEF IInv, MemoryOK
      <4>3. c.out \in Outcomes BY <4>1, <4>2
      <4>4. QED BY <4>3 DEF c
    <3>3. QED BY <3>1, <3>2
  <2> HIDE DEF said
  <2>3. QED BY <2>1, <2>2
<1>8. live' = res.l BY DEF Apply
<1>9. QED BY <1>6, <1>7, <1>8

\* A step that does what a good result says.
LEMMA GoodStep ==
    ASSUME IInv, NEW res, Good(db, res, overrun), Apply(res),
           Watched(res.d, res.l) \/ checking' \/ overrun,
           checking' => res.d.run.status = "running" /\ res.l.pc = "idle",
           checking' \in BOOLEAN, ~down', down' \in BOOLEAN,
           known' = known, calls' \subseteq Callers,
           resuming' = resuming, overrun' = overrun
    PROVE  IInv' /\ Forward(db, db')
<1>1. res \in ResType /\ Sound(res.d, res.l, overrun) /\ Forward(db, res.d) /\ RowsOK(res.d)
  BY DEF Good, Sound
<1>2. overrun \in BOOLEAN BY DEF IInv, MemoryOK
<1>3. /\ Alike(res.d, db') /\ live' = res.l
      /\ outcome' \in [Roles -> Outcomes]
  BY <1>1, ApplyFields
<1>4. /\ Sound(db', live', overrun) /\ Forward(res.d, db')
      /\ Watched(res.d, res.l) <=> Watched(db', live')
  BY <1>1, <1>2, <1>3, SoundAlike
<1>5. db'.att = res.d.att /\ db'.run.status = res.d.run.status
      /\ db'.run.version = res.d.run.version
  BY <1>3 DEF Alike
<1>6. Forward(db, db') BY <1>1, <1>4, <1>5 DEF Forward
<1>7. \A k \in ResumeKeys :
         resuming[k] \in {"guidance_applied", "replanning_required"} => HasLatest(db')
  BY <1>6 DEF IInv, MemoryOK, Forward
<1>8. checking' => db'.run.status = "running" /\ live'.pc = "idle"
  BY <1>3, <1>5
<1>9. MemoryOK'
  <2>1. /\ known' \subseteq [att : AttemptType, out : Outcomes]
        /\ resuming' \in [ResumeKeys -> {"idle", "plain"} \cup Effects]
    BY DEF IInv, MemoryOK
  <2>2. \A k \in ResumeKeys :
           resuming'[k] \in {"guidance_applied", "replanning_required"} => HasLatest(db')
    BY <1>7
  <2>3. QED BY <1>2, <1>3, <1>8, <2>1, <2>2 DEF MemoryOK
<1>10. (Watched(db, live) \/ down \/ checking \/ overrun)' BY <1>4
<1>11. Sound(db, live, overrun)' BY <1>4
<1>12. QED BY <1>6, <1>9, <1>10, <1>11 DEF IInv

\* The common case: a goroutine or a handler, beside which nothing moves.
LEMMA HandlerStep ==
    ASSUME IInv, ~down, NEW res, Good(db, res, overrun), Apply(res),
           live.pc # "idle" \/ LeavesAlone(db, res),
           known' = known, calls' \subseteq Callers,
           UNCHANGED <<resuming, checking, down, overrun>>
    PROVE  IInv' /\ Forward(db, db')
<1>1. Watched(db, live) \/ checking \/ overrun BY DEF IInv
<1>2. Watched(res.d, res.l) \/ checking' \/ overrun BY <1>1 DEF Good
<1>3. checking => res.d = db /\ res.l = live /\ db.run.status = "running" /\ live.pc = "idle"
  BY DEF IInv, MemoryOK, LeavesAlone
<1>4. checking' \in BOOLEAN /\ ~down' /\ down' \in BOOLEAN /\ overrun' = overrun /\ resuming' = resuming
  BY DEF IInv, MemoryOK
<1>5. checking' => res.d.run.status = "running" /\ res.l.pc = "idle" BY <1>3
<1>6. QED BY <1>2, <1>4, <1>5, GoodStep

LEMMA Invariant ==
    ASSUME IInv
    PROVE  /\ overrun \in BOOLEAN /\ checking \in BOOLEAN /\ Sound(db, live, overrun)
           /\ RowsOK(db) /\ InterventionsHold(db, overrun) /\ OneAtWork(db, live)
           /\ RightPlace(db, live) /\ WorkIsExpected(db, live, overrun)
           /\ live \in PlaceType /\ calls \subseteq Callers
BY DEF IInv, MemoryOK, Sound

\* The goroutine of a turn has the only session at work.
LEMMA OnTheTurn ==
    ASSUME IInv, live.pc \in {"turn", "reattach"}
    PROVE  /\ live.role \in Roles /\ Active(db) \subseteq {live.role} /\ ~Ended(db)
           /\ live.pc # "idle"
BY Invariant DEF OneAtWork, PlaceType

LEMMA OnNobody ==
    ASSUME IInv, live.pc \in {"chain", "publish", "implement"}
    PROVE  /\ live.role \in Roles /\ Resting(db, overrun) /\ live.pc # "idle"
BY Invariant DEF OneAtWork, PlaceType, Resting

LEMMA FinishTurnStep ==
    ASSUME IInv, NEW r \in Roles, FinishTurn(r)
    PROVE  IInv' /\ Forward(db, db')
<1>1. live.pc = "turn" /\ live.role = r /\ ~down BY DEF FinishTurn
<1>2. Active(db) \subseteq {r} /\ ~Ended(db) /\ live.pc # "idle" BY <1>1, OnTheTurn
<1>3. PICK submits \in BOOLEAN : Apply(Finished(db, r, submits)) BY DEF FinishTurn
<1>4. Good(db, Finished(db, r, submits), overrun) BY <1>2, Invariant, FinishedGood
<1>5. known' = known /\ calls' \subseteq Callers /\ UNCHANGED <<resuming, checking, down, overrun>>
  BY Invariant DEF FinishTurn, others
<1>6. QED BY <1>1, <1>2, <1>3, <1>4, <1>5, HandlerStep

LEMMA FinishInterventionStep ==
    ASSUME IInv, NEW r \in Roles, FinishIntervention(r)
    PROVE  IInv' /\ Forward(db, db')
<1> DEFINE i == Latest(db)
           l == At("release", r, NoAttempt)
<1>1. live.pc = "turn" /\ live.role = r /\ ~down /\ db.att[r].kind = "intervention"
  BY DEF FinishIntervention, Intervening
<1>2. Active(db) \subseteq {r} /\ ~Ended(db) /\ live.pc # "idle" BY <1>1, OnTheTurn
<1>3. HasLatest(db) BY <1>1, Invariant DEF RowsOK
<1>4. known' = known /\ calls' \subseteq Callers /\ UNCHANGED <<resuming, checking, down, overrun>>
  BY Invariant DEF FinishIntervention, others
<1>5. PICK effect \in Effects :
        IF MayCompleteIntervention(db, i, db.att[r])
        THEN Apply(Res(CompleteIntervention(db, i, effect), l, FALSE))
        ELSE Apply(Res(RequireReview(db, r), l, FALSE))
  BY DEF FinishIntervention
<1>6. CASE MayCompleteIntervention(db, i, db.att[r])
  <2> DEFINE e == CompleteIntervention(db, i, effect)
  <2>1. /\ RowsOK(e) /\ HasLatest(e) /\ e.run = db.run /\ e.feature = db.feature
        /\ e.att = db.att
        /\ Active(e) = Active(db) \ {db.ivs[i].target}
        /\ db.ivs[i].target \in Active(db)
        /\ \A j \in DOMAIN e.ivs : e.ivs[j].status = "answered"
    BY <1>3, <1>6, Invariant, InterventionEnds
  <2>2. l \in PlaceType /\ l.pc = "release" BY NamedPlaces, NoAttemptTyped DEF Places
  <2>3. Apply(Res(e, l, FALSE)) BY <1>5, <1>6
  <2> HIDE DEF e, i, l
  <2>4. Active(e) = {} /\ ~Ended(e) BY <1>2, <2>1 DEF Ended
  <2>5. AllAnswered(e) BY <2>1 DEF AllAnswered
  <2>6. InterventionsHold(e, overrun) BY <2>1, <2>5, AnsweredHolds, Invariant
  <2>7. RightPlace(e, l) /\ Forward(db, e) BY <2>1, <2>2 DEF RightPlace, Forward
  <2>8. FALSE \in BOOLEAN OBVIOUS
  <2>9. Good(db, Res(e, l, FALSE), overrun)
    BY <2>1, <2>2, <2>4, <2>6, <2>7, <2>8, Invariant, GoodPlace
  <2>10. QED BY <1>1, <1>2, <1>4, <2>3, <2>9, HandlerStep
<1>7. CASE ~MayCompleteIntervention(db, i, db.att[r])
  <2>1. FALSE \in BOOLEAN OBVIOUS
  <2>2. Good(db, Res(RequireReview(db, r), l, FALSE), overrun)
    BY <1>2, <2>1, Invariant, HeldForTheUser
  <2>3. Apply(Res(RequireReview(db, r), l, FALSE)) BY <1>5, <1>7
  <2>4. QED BY <1>1, <1>2, <1>4, <2>2, <2>3, HandlerStep
<1>8. QED BY <1>6, <1>7

\* A turn that ends badly is held for the user, or its run stops.
LEMMA FinishBadlyStep ==
    ASSUME IInv, NEW r \in Roles, FinishBadly(r)
    PROVE  IInv' /\ Forward(db, db')
<1> DEFINE l == At("release", r, NoAttempt)
           rested == MoveSession(db, r, "stopped")
           e == TransitionRun(rested, "stopped", "none")
<1>1. live.pc = "turn" /\ live.role = r /\ ~down BY DEF FinishBadly
<1>2. Active(db) \subseteq {r} /\ ~Ended(db) /\ live.pc # "idle" BY <1>1, OnTheTurn
<1>3. known' = known /\ calls' \subseteq Callers /\ UNCHANGED <<resuming, checking, down, overrun>>
  BY Invariant DEF FinishBadly, others
<1>4. FALSE \in BOOLEAN OBVIOUS
<1>5. /\ Good(db, Res(RequireReview(db, r), l, FALSE), overrun)
      /\ Good(db, Res(PauseFailedTurn(db, r), l, FALSE), overrun)
  BY <1>2, <1>4, Invariant, HeldForTheUser
<1>6. Good(db, Res(e, l, FALSE), overrun)
  <2>1. PICK s \in SessionType : s.status = "stopped" /\ rested = WithSession(db, r, s)
    BY Invariant, SessionStands DEF SessionStatuses, SessionEnds, MoveSession
  <2>2. /\ RowsOK(rested) /\ rested.att = db.att /\ rested.ivs = db.ivs
        /\ rested.run = db.run
        /\ Active(rested) = IF s.status \in {"absent", "waiting"} \cup SessionEnds
                            THEN Active(db) \ {r} ELSE Active(db) \cup {r}
    BY <2>1, Invariant, SessionMoves
  <2>3. Active(rested) = {} BY <1>2, <2>1, <2>2 DEF SessionEnds
  <2> HIDE DEF rested
  <2>4. RowsOK(e) /\ Beside(rested, e) /\ e.ivs = rested.ivs /\ Ended(e)
    BY <2>2, RunStops
  <2> HIDE DEF e
  <2>5. Active(e) = {} BY <2>3, <2>4 DEF Active, Beside
  <2>6. l \in PlaceType /\ l.pc = "release" BY NamedPlaces, NoAttemptTyped DEF Places
  <2> HIDE DEF l
  <2>7. InterventionsHold(e, overrun) /\ RightPlace(e, l)
    BY <2>4, <2>6 DEF InterventionsHold, RightPlace
  <2>8. Sound(e, l, overrun) /\ Watched(e, l)
    BY <2>4, <2>5, <2>6, <2>7, Invariant, RestIsSound
  <2>9. Forward(db, e) BY <2>2, <2>4 DEF Forward, Beside, HasLatest
  <2>10. /\ Res(e, l, FALSE) \in ResType /\ Res(e, l, FALSE).d = e /\ Res(e, l, FALSE).l = l
    BY <2>4, <2>6 DEF Res, ResType, RowsOK
  <2>11. QED BY <2>8, <2>9, <2>10 DEF Good
<1>7. \/ Apply(Res(RequireReview(db, r), l, FALSE))
      \/ Apply(Res(PauseFailedTurn(db, r), l, FALSE))
      \/ Apply(Res(e, l, FALSE))
  BY DEF FinishBadly
<1> HIDE DEF e, l
<1>8. QED BY <1>1, <1>2, <1>3, <1>5, <1>6, <1>7, HandlerStep

\* The next turn is admitted, or the run is blocked.
LEMMA ChainStep ==
    ASSUME IInv, Chain
    PROVE  IInv' /\ Forward(db, db')
<1> DEFINE r == live.role
           a == live.next
           may == MayBeginAutonomousTurn(db, r, db.att[r], "planning", TRUE, FALSE)
           begun == Begun(db, r, a)
           blocked == Res(waitRun(db, "blocker"), At("release", r, NoAttempt), TRUE)
<1>1. live.pc = "chain" /\ ~down BY DEF Chain
<1>2. r \in Roles /\ Resting(db, overrun) /\ live.pc # "idle" BY <1>1, OnNobody
<1>3. known' = known /\ calls' \subseteq Callers /\ UNCHANGED <<resuming, checking, down, overrun>>
  BY Invariant DEF Chain, others
<1>4. CASE may
  <2>1. ~db.run.paused /\ db.feature = "planning" BY <1>4 DEF MayBeginAutonomousTurn
  <2>2. a \in AttemptType /\ a.kind \in {"planning", "approval"} /\ a.v = db.run.version
    BY <1>1, Invariant DEF RightPlace, PlaceType
  <2>3. Fits(db, r, a) BY <2>1, <2>2 DEF Fits
  <2>4. Works(db, BeginAutonomousTurn(db, r, a), r, a) BY <1>2, <2>1, <2>2, TurnFields DEF Resting
  <2>5. Good(db, begun, overrun)
    BY <1>2, <2>1, <2>2, <2>3, <2>4, Invariant, GoodTurn DEF Resting, Begun
  <2>6. Apply(begun) BY <1>4 DEF Chain
  <2>7. QED BY <1>1, <1>3, <2>5, <2>6, HandlerStep
<1>5. CASE ~may
  <2>1. TRUE \in BOOLEAN OBVIOUS
  <2>2. Good(db, blocked, overrun) BY <1>2, <2>1, Invariant, GoodWait DEF WaitKinds
  <2>3. Apply(blocked) BY <1>5 DEF Chain
  <2>4. QED BY <1>1, <1>3, <2>2, <2>3, HandlerStep
<1>6. QED BY <1>4, <1>5

\* The plan is published, or goes on its way there.
LEMMA PublishStep ==
    ASSUME IInv, Publish
    PROVE  IInv' /\ Forward(db, db')
<1>1. live.pc = "publish" /\ ~down /\ Apply(ContinueSubmittedPlan(db)) BY DEF Publish
<1>2. Resting(db, overrun) /\ live.pc # "idle" BY <1>1, OnNobody
<1>3. Good(db, ContinueSubmittedPlan(db), overrun) BY <1>2, Invariant, ContinueSubmittedPlanGood
<1>4. known' = known /\ calls' \subseteq Callers /\ UNCHANGED <<resuming, checking, down, overrun>>
  BY Invariant DEF Publish, others
<1>5. QED BY <1>1, <1>2, <1>3, <1>4, HandlerStep

\* The first implementation turn is admitted, or the run is let go.
LEMMA ImplementStep ==
    ASSUME IInv, Implement
    PROVE  IInv' /\ Forward(db, db')
<1> DEFINE a == live.next
           may == MayBeginAutonomousTurn(db, "lead", db.att["lead"], "implementing", FALSE, FALSE)
           begun == Begun(db, "lead", a)
           e == IF live.key = "turn" THEN waitRun(db, "blocker") ELSE db
           away == Res(e, Idle, TRUE)
<1>1. live.pc = "implement" /\ ~down BY DEF Implement
<1>2. Resting(db, overrun) /\ live.pc # "idle" BY <1>1, OnNobody
<1>3. known' = known /\ calls' \subseteq Callers /\ UNCHANGED <<resuming, checking, down, overrun>>
  BY Invariant DEF Implement
<1>4. "lead" \in Roles /\ "blocker" \in WaitKinds BY DEF Roles, WaitKinds
<1>5. CASE may
  <2>1. ~db.run.paused /\ db.feature = "implementing" BY <1>5 DEF MayBeginAutonomousTurn
  <2>2. a \in AttemptType /\ a.kind = "implementation"
    BY <1>1, Invariant DEF RightPlace, PlaceType
  <2>3. Fits(db, "lead", a) BY <2>1, <2>2 DEF Fits
  <2>4. Works(db, BeginAutonomousTurn(db, "lead", a), "lead", a)
    BY <1>2, <1>4, <2>1, <2>2, TurnFields DEF Resting
  <2>5. Good(db, begun, overrun)
    BY <1>2, <1>4, <2>1, <2>2, <2>3, <2>4, Invariant, GoodTurn DEF Resting, Begun
  <2>6. Apply(begun) BY <1>5 DEF Implement
  <2>7. QED BY <1>1, <1>3, <2>5, <2>6, HandlerStep
<1>6. CASE ~may
  <2>1. TRUE \in BOOLEAN OBVIOUS
  <2>2. Idle \in PlaceType /\ Idle.pc = "idle"
    BY <1>4, NamedPlaces, NoAttemptTyped DEF Places
  <2>3. Apply(away) BY <1>6 DEF Implement
  <2>4. Sound(e, live, overrun) /\ Quiet(db, e) /\ Active(e) = {}
    BY <1>2, <1>4, WaitRunQuiet, QuietHere, Invariant DEF Resting
  <2>5. ~Ended(e)
    BY <1>2, <1>4, Invariant, WaitRunSound DEF Resting
  <2> HIDE DEF e
  <2>6. RowsOK(e) /\ InterventionsHold(e, overrun) BY <2>4 DEF Sound
  <2>7. Forward(db, e) /\ RightPlace(e, Idle) BY <2>2, <2>4 DEF Forward, Quiet, RightPlace
  <2>8. Good(db, away, overrun)
    BY <2>1, <2>2, <2>4, <2>5, <2>6, <2>7, Invariant, GoodPlace
  <2> HIDE DEF away
  <2>9. QED BY <1>1, <1>3, <2>3, <2>8, HandlerStep
<1>7. QED BY <1>5, <1>6

\* A turn found at work is observed, or has one successor, or is held.
LEMMA ReattachStep ==
    ASSUME IInv, Reattach
    PROVE  IInv' /\ Forward(db, db')
<1> DEFINE r == live.role
           a == db.att[r]
           next == recoverySuccessorAttemptID(a)
           rested == TransitionSession(db, r, "waiting")
           may == /\ db.sess[r].status \in {"running", "pause_requested", "waiting"} /\ HasSuccessor(a)
                  /\ MayBeginAutonomousTurn(rested, r, a, db.feature, TRUE, FALSE)
           begun == Begun(rested, r, next)
           left == At("release", r, NoAttempt)
           l == At("turn", r, NoAttempt)
<1>1. live.pc = "reattach" /\ ~down BY DEF Reattach
<1>2. r \in Roles /\ Active(db) \subseteq {r} /\ ~Ended(db) /\ live.pc # "idle" BY <1>1, OnTheTurn
<1>3. known' = known /\ calls' \subseteq Callers /\ UNCHANGED <<resuming, checking, down, overrun>>
  BY Invariant DEF Reattach, others
<1>4. TRUE \in BOOLEAN OBVIOUS
<1>5. /\ Resting(rested, overrun) /\ Quiet(db, rested)
      /\ rested.run = db.run /\ rested.ivs = db.ivs /\ rested.att = db.att
      /\ rested.feature = db.feature
  BY <1>2, Invariant, SessionRests
<1>6. CASE outcome[r] \in {"failed", "lost"} /\ may
  <2>1. ~db.run.paused /\ ~rested.run.paused
    BY <1>5, <1>6 DEF MayBeginAutonomousTurn
  <2>2. a \in AttemptType BY <1>2, RowFields, Invariant
  <2>3. a.kind \in {"planning", "approval", "implementation"} BY <1>6 DEF HasSuccessor
  <2>4. next \in AttemptType /\ next.kind = a.kind /\ next.v = a.v
    BY <2>2, <2>3 DEF recoverySuccessorAttemptID, AttemptType
  <2>5. overrun \/ Fits(rested, r, next)
    <3>1. SUFFICES ASSUME ~overrun PROVE Fits(rested, r, next) OBVIOUS
    <3>2. AllAnswered(db) BY <1>2, <2>1, <3>1, Invariant, UnpausedIsAnswered
    <3>3. ~LatestIs(db, "being_answered") BY <3>2, AnsweredHolds, Invariant
    <3>4. Expected(db, r) BY <1>1, <3>1, Invariant DEF WorkIsExpected
    <3> HIDE DEF next, rested
    <3>5. QED BY <1>5, <2>4, <3>3, <3>4 DEF Expected, Fits
  <2>6. Works(rested, BeginAutonomousTurn(rested, r, next), r, next)
    BY <1>2, <1>5, <2>1, <2>3, <2>4, TurnFields DEF Resting
  <2> HIDE DEF rested, next
  <2>7. Good(rested, begun, overrun)
    BY <1>2, <1>5, <2>1, <2>4, <2>5, <2>6, Invariant, GoodTurn DEF Resting, Begun
  <2>8. Apply(begun) BY <1>6 DEF Reattach, rested, next
  <2> HIDE DEF begun
  <2>9. Good(db, begun, overrun) BY <1>5, <2>7, Invariant, GoodAfter
  <2>10. QED BY <1>1, <1>2, <1>3, <2>8, <2>9, HandlerStep
<1>7. CASE outcome[r] \in {"failed", "lost"} /\ ~may
  <2> DEFINE m == IF db.sess[r].status = "starting" THEN db ELSE rested
             res == Res(RequireReview(m, r), left, TRUE)
  <2>1. Apply(res) BY <1>7 DEF Reattach
  <2>2. Good(db, res, overrun)
    <3>1. CASE db.sess[r].status = "starting"
      <4>1. Good(db, Res(RequireReview(db, r), left, TRUE), overrun)
        BY <1>2, <1>4, Invariant, HeldForTheUser
      <4>2. QED BY <3>1, <4>1
    <3>2. CASE db.sess[r].status # "starting"
      <4>1. rested.sess[r].status = "waiting"
        BY <1>2, RowFields, Invariant DEF TransitionSession, RowsOK, RowType
      <4> HIDE DEF rested
      <4>2. RequireReview(m, r) = waitRun(rested, "blocker") BY <3>2, <4>1 DEF RequireReview
      <4>3. Good(rested, Res(waitRun(rested, "blocker"), left, TRUE), overrun)
        BY <1>2, <1>4, <1>5, Invariant, GoodWait DEF WaitKinds
      <4>4. Good(rested, res, overrun) BY <4>2, <4>3
      <4> HIDE DEF res
      <4>5. QED BY <1>5, <4>4, Invariant, GoodAfter
    <3>3. QED BY <3>1, <3>2
  <2> HIDE DEF res
  <2>3. QED BY <1>1, <1>2, <1>3, <2>1, <2>2, HandlerStep
<1>8. CASE outcome[r] \notin {"failed", "lost"}
  <2>1. Apply(Res(db, l, FALSE)) BY <1>8 DEF Reattach
  <2>2. l \in PlaceType /\ l.pc = "turn" /\ l.role = r
    BY <1>2, NamedPlaces, NoAttemptTyped DEF Places
  <2> HIDE DEF l
  <2>3. Sound(db, l, overrun)
    <3>1. OneAtWork(db, l) BY <1>2, <2>2, Invariant DEF OneAtWork
    <3>2. RightPlace(db, l) BY <2>2 DEF RightPlace
    <3>3. WorkIsExpected(db, l, overrun) BY <2>2, Invariant DEF WorkIsExpected
    <3>4. QED BY <2>2, <3>1, <3>2, <3>3, Invariant DEF Sound
  <2>4. Watched(db, l) BY <2>2 DEF Watched
  <2>5. Forward(db, db) BY ForwardStill
  <2>6. /\ Res(db, l, FALSE) \in ResType /\ Res(db, l, FALSE).d = db /\ Res(db, l, FALSE).l = l
    BY <2>2, Invariant DEF Res, ResType, RowsOK
  <2>7. Good(db, Res(db, l, FALSE), overrun) BY <2>3, <2>4, <2>5, <2>6 DEF Good
  <2>8. QED BY <1>1, <1>2, <1>3, <2>1, <2>7, HandlerStep
<1>9. QED BY <1>6, <1>7, <1>8

\* The holder lets the run go.
LEMMA ReleaseStep ==
    ASSUME IInv, Release
    PROVE  IInv' /\ Forward(db, db')
<1>1. /\ live.pc = "release" /\ ~down /\ live' = Idle /\ calls' = calls \cup {"turn"}
      /\ UNCHANGED <<known, db, outcome, resuming, checking, down, overrun>>
  BY DEF Release
<1>2. Idle \in PlaceType /\ Idle.pc = "idle"
  BY NamedPlaces, NoAttemptTyped DEF Places, Roles
<1>3. Sound(db, Idle, overrun)
  <2>1. OneAtWork(db, Idle) /\ RightPlace(db, Idle)
    BY <1>2, Invariant DEF OneAtWork, RightPlace
  <2>2. WorkIsExpected(db, Idle, overrun) BY <1>2, Invariant DEF WorkIsExpected
  <2>3. QED BY <1>2, <2>1, <2>2, Invariant DEF Sound
<1>4. Watched(db, live) => Watched(db, Idle) BY <1>1 DEF Watched
<1>5. calls' \subseteq Callers BY <1>1, Invariant DEF Callers
<1>6. ~checking BY <1>1 DEF IInv, MemoryOK
<1>7. MemoryOK' BY <1>1, <1>5, <1>6 DEF IInv, MemoryOK
<1>8. Sound(db, live, overrun)' BY <1>1, <1>3
<1>9. (Watched(db, live) \/ down \/ checking \/ overrun)'
  BY <1>1, <1>4 DEF IInv
<1>10. Forward(db, db') BY <1>1, ForwardStill
<1>11. QED BY <1>7, <1>8, <1>9, <1>10 DEF IInv

\* A result whose failure blocks the run, and one whose goroutine knows the
\* caller.
Blocking(res) == [res EXCEPT !.d = waitRun(res.d, "blocker")]
Keyed(res, c) == [res EXCEPT !.l.key = c]

LEMMA GoodBlocked ==
    ASSUME NEW d, NEW o \in BOOLEAN, NEW res, Good(d, res, o)
    PROVE  /\ Good(d, Blocking(res), o)
           /\ Blocking(res).l = res.l /\ Blocking(res).d = waitRun(res.d, "blocker")
           /\ Watched(res.d, res.l) => Watched(Blocking(res).d, Blocking(res).l)
<1> DEFINE e == waitRun(res.d, "blocker")
<1>1. res \in ResType /\ Sound(res.d, res.l, o) /\ Forward(d, res.d)
      /\ (Watched(d, live) => o \/ Watched(res.d, res.l))
  BY DEF Good
<1>2. /\ Sound(e, res.l, o) /\ Forward(res.d, e) /\ Watched(e, res.l)
  BY <1>1, WaitRunSound DEF WaitKinds
<1>3. e.att = res.d.att /\ e.run.version = res.d.run.version
  BY <1>1, WaitRun DEF Beside, Sound, WaitKinds
<1>4. Forward(d, e) BY <1>1, <1>2, <1>3 DEF Forward
<1>5. e \in RowType BY <1>2 DEF Sound, RowsOK
<1> HIDE DEF e
<1>6. [res EXCEPT !.d = e] \in ResType /\ [res EXCEPT !.d = e].d = e /\ [res EXCEPT !.d = e].l = res.l
  BY <1>1, <1>5 DEF ResType
<1>7. Blocking(res) = [res EXCEPT !.d = e] BY DEF Blocking, e
<1>8. Good(d, Blocking(res), o) BY <1>2, <1>4, <1>6, <1>7 DEF Good
<1>9. QED BY <1>2, <1>6, <1>7, <1>8 DEF e

LEMMA GoodKeyed ==
    ASSUME NEW d, NEW o \in BOOLEAN, NEW res, Good(d, res, o), NEW c \in AnyKey
    PROVE  Good(d, Keyed(res, c), o)
<1> DEFINE l == [res.l EXCEPT !.key = c]
<1>1. res \in ResType /\ Sound(res.d, res.l, o) /\ Forward(d, res.d)
      /\ (Watched(d, live) => o \/ Watched(res.d, res.l))
  BY DEF Good
<1>2. res.l \in PlaceType BY <1>1 DEF ResType
<1>3. l \in PlaceType /\ l.pc = res.l.pc /\ l.role = res.l.role /\ l.next = res.l.next
  BY <1>2 DEF PlaceType
<1> HIDE DEF l
<1>4. OneAtWork(res.d, l) /\ RightPlace(res.d, l) /\ WorkIsExpected(res.d, l, o)
  BY <1>1, <1>3 DEF Sound, OneAtWork, RightPlace, WorkIsExpected
<1>5. Sound(res.d, l, o) BY <1>1, <1>3, <1>4 DEF Sound
<1>6. Watched(res.d, res.l) => Watched(res.d, l) BY <1>3 DEF Watched
<1>7. [res EXCEPT !.l = l] \in ResType /\ [res EXCEPT !.l = l].d = res.d /\ [res EXCEPT !.l = l].l = l
  BY <1>1, <1>3 DEF ResType
<1>8. Keyed(res, c) = [res EXCEPT !.l = l] BY <1>1 DEF Keyed, l, ResType
<1>9. QED BY <1>1, <1>5, <1>6, <1>7, <1>8 DEF Good

\* Somebody sees what the run waits for.
LEMMA AdvanceStep ==
    ASSUME IInv, NEW c \in Callers, Advance(c)
    PROVE  IInv' /\ Forward(db, db')
<1> DEFINE res == IF c = "queue"
                  THEN IF Deliverable(db) THEN AdvanceIntervention(db) ELSE Nothing(db)
                  ELSE AdvanceWaitingRun(db)
<1>1. ~down /\ c \in calls BY DEF Advance
<1>2. known' = known /\ calls' \subseteq Callers /\ UNCHANGED <<resuming, checking, down, overrun>>
  BY Invariant DEF Advance
<1>3. \/ res.err /\ c = "turn" /\ Apply(Blocking(res))
      \/ res.l # live /\ Apply(Keyed(res, c))
      \/ Apply(res)
  BY DEF Advance, Blocking, Keyed
<1>4. Good(db, res, overrun) /\ LeavesAlone(db, res)
  <2>1. /\ Good(db, AdvanceWaitingRun(db), overrun) /\ LeavesAlone(db, AdvanceWaitingRun(db))
    BY Invariant, AdvanceWaitingRunGood
  <2>2. Good(db, Nothing(db), overrun) /\ LeavesAlone(db, Nothing(db))
    BY Invariant, GoodStill, LeftAlone
  <2>3. Deliverable(db) => Good(db, AdvanceIntervention(db), overrun)
    BY Invariant, AdvanceInterventionGood
  <2>4. Deliverable(db) => LeavesAlone(db, AdvanceIntervention(db))
    BY DEF Deliverable, AtRestPaused, LeavesAlone
  <2>5. QED BY <2>1, <2>2, <2>3, <2>4
<1>5. res.err /\ c = "turn" => db.run.status = "waiting"
  <2>1. SUFFICES ASSUME db.run.status # "waiting", c = "turn" PROVE ~res.err OBVIOUS
  <2>2. AdvanceWaitingRun(db) = Nothing(db)
    BY <2>1 DEF AdvanceWaitingRun, Deliverable, AtRestPaused
  <2>3. ~Nothing(db).err BY DEF Nothing, Res
  <2>4. QED BY <2>1, <2>2, <2>3
<1> HIDE DEF res
<1>6. CASE res.err /\ c = "turn" /\ Apply(Blocking(res))
  <2>1. Good(db, Blocking(res), overrun) BY <1>4, Invariant, GoodBlocked
  <2>2. LeavesAlone(db, Blocking(res)) BY <1>5, <1>6 DEF LeavesAlone
  <2>3. QED BY <1>1, <1>2, <1>6, <2>1, <2>2, HandlerStep
<1>7. CASE res.l # live /\ Apply(Keyed(res, c))
  <2>1. Good(db, Keyed(res, c), overrun) BY <1>4, Invariant, GoodKeyed DEF Callers, AnyKey
  <2>2. LeavesAlone(db, Keyed(res, c)) BY <1>4, <1>7 DEF LeavesAlone
  <2>3. QED BY <1>1, <1>2, <1>7, <2>1, <2>2, HandlerStep
<1>8. CASE Apply(res) BY <1>1, <1>2, <1>4, <1>8, HandlerStep
<1>9. QED BY <1>3, <1>6, <1>7, <1>8

\* The user's requests for the next phase.
LEMMA RequestSteps ==
    ASSUME IInv,
           \/ StartReviewRequest \/ StartImplementationRequest
           \/ \E k \in ResumeKeys : StartRoundRequest(k)
    PROVE  IInv' /\ Forward(db, db')
<1>1. ~down /\ known' = known /\ calls' \subseteq Callers /\ UNCHANGED <<resuming, checking, down, overrun>>
  BY Invariant DEF StartReviewRequest, StartImplementationRequest, StartRoundRequest, others
<1>2. PICK res : Apply(res) /\ Good(db, res, overrun) /\ LeavesAlone(db, res)
  <2>1. CASE StartReviewRequest
    BY <2>1, Invariant, StartPlanningReviewGood DEF StartReviewRequest
  <2>2. CASE StartImplementationRequest
    BY <2>2, Invariant, StartImplementationGood DEF StartImplementationRequest
  <2>3. CASE \E k \in ResumeKeys : StartRoundRequest(k)
    <3>1. PICK k \in ResumeKeys : Apply(StartPlanningRound(db, k))
      BY <2>3 DEF StartRoundRequest
    <3>2. k \in AnyKey BY DEF AnyKey
    <3>3. QED BY <3>1, <3>2, Invariant, StartPlanningRoundGood
  <2>4. QED BY <2>1, <2>2, <2>3
<1>3. QED BY <1>1, <1>2, HandlerStep

\* A message begins the lead's next implementation turn.
LEMMA SendCommandStep ==
    ASSUME IInv, NEW c \in Replies, SendCommand(c)
    PROVE  IInv' /\ Forward(db, db')
<1> DEFINE a == [db.work["lead"] EXCEPT !.n = @ + 1]
           e == BeginWorkerTurn(db, c, "lead", a)
           res == Res(e, At("turn", "lead", NoAttempt), FALSE)
<1>1. ~down /\ known' = known /\ calls' \subseteq Callers /\ UNCHANGED <<resuming, checking, down, overrun>>
  BY Invariant DEF SendCommand, others
<1>2. /\ db.run.status = "waiting" /\ ~db.run.paused /\ db.feature = "implementing"
      /\ Settled(db, "lead") /\ Settled(db, "reviewer")
      /\ db.work["lead"].kind = "implementation"
  BY DEF SendCommand, MayBeginWorkerTurn, Settled
<1>3. Active(db) = {} /\ ~Ended(db) BY <1>2, BothSettled DEF Ended, RunEnds
<1>4. db.work["lead"] \in AttemptType BY Invariant DEF RowsOK, RowType, Roles
<1>5. a \in AttemptType /\ a.kind = "implementation" BY <1>2, <1>4 DEF AttemptType
<1> HIDE DEF a
<1>6. Fits(db, "lead", a) BY <1>2, <1>5 DEF Fits
<1>7. Works(db, e, "lead", a) BY <1>2, <1>5, Invariant, TurnFields DEF Roles
<1>8. Apply(res) BY DEF SendCommand, a
<1> HIDE DEF e
<1>9. Good(db, res, overrun)
  BY <1>2, <1>3, <1>5, <1>6, <1>7, Invariant, GoodTurn DEF Roles
<1> HIDE DEF res
<1>10. LeavesAlone(db, res) BY <1>2 DEF LeavesAlone
<1>11. QED BY <1>1, <1>8, <1>9, <1>10, HandlerStep

\* Rows in which the same sessions are at work, on the same turns of the same
\* plan, for a run of the same status.
Stands(d, e, o) ==
    /\ RowsOK(e) /\ e.feature = d.feature /\ e.att = d.att /\ Active(e) = Active(d)
    /\ e.run.status = d.run.status /\ e.run.version = d.run.version
    /\ Blocked(d) => Blocked(e)
    /\ HasLatest(d) => HasLatest(e)
    /\ LatestIs(e, "being_answered") <=> LatestIs(d, "being_answered")
    /\ \A r \in Roles : Answering(d, r) => Answering(e, r)
    /\ InterventionsHold(e, o)

LEMMA StandsSound ==
    ASSUME NEW d, NEW l, NEW o, Sound(d, l, o), NEW e, NEW p, Stands(d, e, p), o => p
    PROVE  Sound(e, l, p) /\ (Watched(d, l) => Watched(e, l)) /\ Forward(d, e)
<1>1. \A r \in Roles : Expected(d, r) => Expected(e, r)
  BY DEF Stands, Expected
<1>2. \A r \in Active(d) : r \in Roles BY DEF Active
<1>3. Ended(e) <=> Ended(d) BY DEF Stands, Ended
<1>4. OneAtWork(e, l) BY <1>3 DEF Sound, OneAtWork, Stands
<1>5. RightPlace(e, l) BY DEF Sound, RightPlace, Stands
<1>6. WorkIsExpected(e, l, p)
  <2>1. l.role \in Roles BY DEF Sound, PlaceType
  <2>2. QED BY <1>1, <1>2, <2>1 DEF Sound, WorkIsExpected, Stands
<1>7. Sound(e, l, p) BY <1>4, <1>5, <1>6 DEF Sound, Stands
<1>8. QED BY <1>7 DEF Stands, Watched, Forward

LEMMA StandsStep ==
    ASSUME IInv, Stands(db, db', overrun'), overrun' \in BOOLEAN, overrun => overrun',
           UNCHANGED <<known, outcome, live, checking, down>>, calls' \subseteq Callers,
           resuming' \in [ResumeKeys -> {"idle", "plain"} \cup Effects],
           \A k \in ResumeKeys :
              resuming'[k] \in {"guidance_applied", "replanning_required"} => HasLatest(db)
    PROVE  IInv' /\ Forward(db, db')
<1>1. /\ Sound(db', live, overrun') /\ (Watched(db, live) => Watched(db', live))
      /\ Forward(db, db')
  BY Invariant, StandsSound
<1>2. db'.run.status = db.run.status /\ (HasLatest(db) => HasLatest(db')) BY DEF Stands
<1>3. MemoryOK' BY <1>2 DEF IInv, MemoryOK
<1>4. Sound(db, live, overrun)' BY <1>1
<1>5. (Watched(db, live) \/ down \/ checking \/ overrun)' BY <1>1 DEF IInv
<1>6. QED BY <1>1, <1>3, <1>4, <1>5 DEF IInv

LEMMA MemoryKept ==
    ASSUME IInv
    PROVE  /\ resuming \in [ResumeKeys -> {"idle", "plain"} \cup Effects]
           /\ \A k \in ResumeKeys :
                 resuming[k] \in {"guidance_applied", "replanning_required"} => HasLatest(db)
           /\ checking => db.run.status = "running" /\ live.pc = "idle"
           /\ down => live.pc = "idle" /\ ~checking
           /\ Callers = {"turn", "resume", "queue"}
           /\ Watched(db, live) \/ down \/ checking \/ overrun
BY DEF IInv, MemoryOK, Callers

LEMMA AlikeStands ==
    ASSUME NEW d, NEW l, NEW o \in BOOLEAN, Sound(d, l, o), NEW e, Alike(d, e)
    PROVE  Stands(d, e, o)
<1>1. Sound(e, l, o) BY SoundAlike
<1>2. InterventionsHold(e, o) BY <1>1 DEF Sound
<1>3. QED BY <1>2 DEF Alike, Stands, Blocked, HasLatest, Latest, LatestIs, Answering

\* A conversation gets its name, and a message reaches the agent.
LEMMA SessionSteps ==
    ASSUME IInv,
           \/ \E r \in Roles : CaptureProviderSession(r)
           \/ \E c \in db.cmds : ApplyReply(c)
    PROVE  IInv' /\ Forward(db, db')
<1>1. UNCHANGED <<outcome, live, known, calls, resuming, checking, down, overrun>>
  BY DEF CaptureProviderSession, ApplyReply, others
<1>2. Alike(db, db')
  <2>1. ASSUME NEW r \in Roles, CaptureProviderSession(r) PROVE Alike(db, db')
    <3>1. db.sess[r].status = "starting" /\ db' = TransitionSession(db, r, "running")
      BY <2>1 DEF CaptureProviderSession
    <3>2. PICK s \in SessionType : s.status = "running" /\ db' = WithSession(db, r, s)
      BY <3>1, Invariant, SessionStands DEF SessionStatuses
    <3>3. r \in Active(db) BY <3>1 DEF Active, SessionEnds
    <3>4. s.status \notin {"absent", "waiting"} \cup SessionEnds BY <3>2 DEF SessionEnds
    <3>5. QED BY <3>2, <3>3, <3>4, Invariant, SessionHeld
  <2>2. ASSUME NEW c \in db.cmds, ApplyReply(c) PROVE Alike(db, db')
    <3> DEFINE cmds == (db.cmds \ {c}) \cup {[c EXCEPT !.status = "applied"]}
    <3>1. db \in RowType /\ db.cmds \in SUBSET CommandType BY Invariant DEF RowsOK, RowType
    <3>2. [c EXCEPT !.status = "applied"] \in CommandType BY <3>1 DEF CommandType
    <3>3. cmds \in SUBSET CommandType BY <3>1, <3>2
    <3>4. db' = [db EXCEPT !.cmds = cmds] BY <2>2, <3>1 DEF ApplyReply, ResolveCommand, RowType
    <3> HIDE DEF cmds
    <3>5. db' \in RowType /\ db'.run = db.run /\ db'.ivs = db.ivs /\ Beside(db, db')
      BY <3>1, <3>3, <3>4 DEF RowType, Beside
    <3>6. RowsOK(db') BY <3>5, Invariant, CoreKept DEF SameCore
    <3>7. QED BY <3>5, <3>6 DEF Alike, Beside, Active
  <2>3. QED BY <2>1, <2>2
<1>3. Stands(db, db', overrun') BY <1>1, <1>2, Invariant, AlikeStands
<1>4. QED BY <1>1, <1>3, Invariant, MemoryKept, StandsStep

\* The user pauses the run.
LEMMA PauseStep ==
    ASSUME IInv, NEW k \in PauseKeys, Pause(k)
    PROVE  IInv' /\ Forward(db, db')
<1>1. /\ db' = ApplyPause(db, k)
      /\ UNCHANGED <<outcome, live, known, calls, resuming, checking, down, overrun>>
  BY DEF Pause, others
<1>2. /\ RowsOK(db') /\ Beside(db, db') /\ db'.ivs = db.ivs
      /\ db'.run.paused /\ db'.run.status = db.run.status /\ db'.run.version = db.run.version
      /\ Blocked(db) => Blocked(db')
  BY <1>1, Invariant, PauseFields
<1>3. InterventionsHold(db', overrun)
  BY <1>2, Invariant DEF InterventionsHold, Ended, LatestIs, HasLatest, Latest, AtRestPaused
<1>4. Stands(db, db', overrun')
  BY <1>1, <1>2, <1>3 DEF Stands, Beside, Active, LatestIs, Answering, HasLatest, Latest
<1>5. QED BY <1>1, <1>4, Invariant, MemoryKept, StandsStep

\* The user asks an agent something.
LEMMA QueueGuidanceStep ==
    ASSUME IInv, NEW g \in Guidance, NEW r \in Roles, QueueGuidance(g, r)
    PROVE  IInv' /\ Forward(db, db')
<1>1. /\ MayQueueIntervention(db, g, r) /\ db' = QueueIntervention(db, g, r)
      /\ calls' = calls \cup {"queue"}
      /\ UNCHANGED <<outcome, live, known, resuming, checking, down, overrun>>
  BY DEF QueueGuidance
<1>2. /\ RowsOK(db') /\ Beside(db, db') /\ HasLatest(db')
      /\ db'.run.paused /\ db'.run.status = db.run.status /\ db'.run.version = db.run.version
      /\ Blocked(db) => Blocked(db')
      /\ LatestIs(db', "queued") => db.run.status = "waiting"
      /\ ~LatestIs(db', "being_answered") /\ ~LatestIs(db, "being_answered")
  BY <1>1, Invariant, InterventionQueues
<1>3. InterventionsHold(db', overrun) BY <1>2 DEF InterventionsHold, AtRestPaused
<1>4. Stands(db, db', overrun')
  BY <1>1, <1>2, <1>3 DEF Stands, Beside, Active, Answering
<1>5. calls' \subseteq Callers BY <1>1, Invariant, MemoryKept
<1>6. QED BY <1>1, <1>4, <1>5, Invariant, MemoryKept, StandsStep

LEMMA StandsStill ==
    ASSUME IInv
    PROVE  Stands(db, db, overrun)
BY Invariant DEF Stands

\* A repeated request, and what a resume reads.
LEMMA ReadingSteps ==
    ASSUME IInv, RepeatGuidance \/ \E k \in ResumeKeys : ReadForResume(k)
    PROVE  IInv' /\ Forward(db, db')
<1>1. UNCHANGED <<db, outcome, live, known, checking, down, overrun>>
  BY DEF RepeatGuidance, ReadForResume
<1>2. calls' \subseteq Callers
  BY Invariant, MemoryKept DEF RepeatGuidance, ReadForResume
<1>3. /\ resuming' \in [ResumeKeys -> {"idle", "plain"} \cup Effects]
      /\ \A k \in ResumeKeys :
            resuming'[k] \in {"guidance_applied", "replanning_required"} => HasLatest(db)
  <2>1. CASE RepeatGuidance BY <2>1, MemoryKept DEF RepeatGuidance
  <2>2. ASSUME NEW k \in ResumeKeys, ReadForResume(k)
        PROVE  /\ resuming' \in [ResumeKeys -> {"idle", "plain"} \cup Effects]
               /\ \A j \in ResumeKeys :
                     resuming'[j] \in {"guidance_applied", "replanning_required"} => HasLatest(db)
    <3> DEFINE i == Latest(db)
               open == HasLatest(db) /\ db.ivs[i].status = "answered" /\ ~db.ivs[i].resolved
               read == IF open THEN db.ivs[i].effect ELSE "plain"
    <3>1. resuming' = [resuming EXCEPT ![k] = read] BY <2>2 DEF ReadForResume
    <3>2. read \in {"plain"} \cup Effects BY Invariant, LatestFields DEF InterventionValid
    <3>3. read \in {"guidance_applied", "replanning_required"} => HasLatest(db) OBVIOUS
    <3> HIDE DEF read
    <3>4. QED BY <3>1, <3>2, <3>3, MemoryKept
  <2>3. QED BY <2>1, <2>2
<1>4. Stands(db, db', overrun') BY <1>1, StandsStill
<1>5. QED BY <1>1, <1>2, <1>3, <1>4, Invariant, StandsStep

\* A resume acts on what it read.
LEMMA ActOnResumeStep ==
    ASSUME IInv, NEW k \in ResumeKeys, ActOnResume(k)
    PROVE  IInv' /\ Forward(db, db')
<1> DEFINE i == Latest(db)
<1>1. /\ UNCHANGED <<known, outcome, live, checking, down>>
      /\ resuming' = [resuming EXCEPT ![k] = "idle"]
  BY DEF ActOnResume
<1>2. /\ resuming' \in [ResumeKeys -> {"idle", "plain"} \cup Effects]
      /\ \A j \in ResumeKeys :
            resuming'[j] \in {"guidance_applied", "replanning_required"} => HasLatest(db)
  BY <1>1, MemoryKept
<1>3. calls' \subseteq Callers BY Invariant, MemoryKept DEF ActOnResume
<1>4. overrun' \in BOOLEAN /\ (overrun => overrun') BY Invariant DEF ActOnResume
<1>5. Stands(db, db', overrun')
  <2>1. CASE resuming[k] = "plain" /\ MayApply(db, k)
    <3>1. /\ db' = ApplyResume(db, k) /\ overrun' = (overrun \/ Unfinished(db) # {})
      BY <2>1 DEF ActOnResume
    <3>2. /\ RowsOK(db') /\ Beside(db, db') /\ db'.ivs = db.ivs
          /\ ~db'.run.paused /\ db'.run.status = db.run.status
          /\ db'.run.version = db.run.version
          /\ Blocked(db) => Blocked(db')
      BY <3>1, Invariant, ResumeFields
    <3>3. InterventionsHold(db', overrun')
      <4>1. CASE overrun' BY <4>1 DEF InterventionsHold
      <4>2. CASE ~overrun'
        <5>1. Unfinished(db) = {} BY <3>1, <4>2
        <5>2. AllAnswered(db') BY <3>2, <5>1 DEF Unfinished, AllAnswered
        <5>3. QED BY <1>4, <3>2, <5>2, AnsweredHolds
      <4>3. QED BY <4>1, <4>2
    <3>4. QED
      BY <3>2, <3>3 DEF Stands, Beside, Active, LatestIs, Answering, HasLatest, Latest
  <2>2. CASE /\ ~(resuming[k] = "plain" /\ MayApply(db, k))
             /\ resuming[k] = "guidance_applied" /\ MayResolveGuidance(db, k, i)
    <3>1. db' = ResolveInterventionGuidance(db, k, i) /\ overrun' = overrun
      BY <2>2 DEF ActOnResume
    <3>2. HasLatest(db) BY <2>2, MemoryKept
    <3>3. /\ RowsOK(db') /\ HasLatest(db') /\ db'.feature = db.feature
          /\ db'.att = db.att /\ db'.sess = db.sess
          /\ db'.run.status = db.run.status /\ db'.run.version = db.run.version
          /\ Blocked(db) => Blocked(db')
          /\ \A j \in DOMAIN db'.ivs : db'.ivs[j].status = "answered"
      BY <2>2, <3>1, <3>2, Invariant, GuidanceResolves
    <3>4. ~LatestIs(db, "being_answered")
      BY <2>2 DEF MayResolveGuidance, Answered, LatestIs
    <3>5. InterventionsHold(db', overrun') /\ ~LatestIs(db', "being_answered")
      BY <1>4, <3>3, AnsweredHolds DEF AllAnswered
    <3>6. QED BY <3>3, <3>4, <3>5 DEF Stands, Active, Answering
  <2>3. CASE /\ ~(resuming[k] = "plain" /\ MayApply(db, k))
             /\ ~(resuming[k] = "guidance_applied" /\ MayResolveGuidance(db, k, i))
    <3>1. db' = db /\ overrun' = overrun BY <2>3 DEF ActOnResume
    <3>2. QED BY <3>1, StandsStill
  <2>4. QED BY <2>1, <2>2, <2>3
<1>6. QED BY <1>1, <1>2, <1>3, <1>4, <1>5, StandsStep

LEMMA IdleIsSound ==
    ASSUME NEW d, NEW l, NEW o, Sound(d, l, o)
    PROVE  /\ Idle \in PlaceType /\ Idle.pc = "idle" /\ Sound(d, Idle, o)
           /\ l.pc \notin {"turn", "reattach"} /\ Watched(d, l) => Watched(d, Idle)
<1>1. Idle \in PlaceType /\ Idle.pc = "idle"
  BY NamedPlaces, NoAttemptTyped DEF Places, Roles
<1>2. OneAtWork(d, Idle) /\ RightPlace(d, Idle) BY <1>1 DEF Sound, OneAtWork, RightPlace
<1>3. WorkIsExpected(d, Idle, o) BY <1>1 DEF Sound, WorkIsExpected
<1>4. Sound(d, Idle, o) BY <1>1, <1>2, <1>3 DEF Sound
<1>5. l.pc \notin {"turn", "reattach"} /\ Watched(d, l) => Watched(d, Idle) BY DEF Watched
<1>6. QED BY <1>1, <1>4, <1>5

\* The feature returns to planning, for a plan the user asked for.
LEMMA ResumeIntoReplanningStep ==
    ASSUME IInv, NEW k \in ResumeKeys, ResumeIntoReplanning(k)
    PROVE  IInv' /\ Forward(db, db')
<1> DEFINE may == /\ AtRestPaused(db) /\ db.plan.submitted /\ Settled(db, "lead")
                  /\ Completed("lead") /\ ~Claimed
           a == Attempt("planning", db.run.version + 1, 1)
           l == [At("replan", "lead", a) EXCEPT !.key = k]
           e == [db EXCEPT !.feature = "planning"]
<1>1. /\ UNCHANGED <<known, outcome, calls, checking, down, overrun>> /\ ~down
      /\ resuming' = [resuming EXCEPT ![k] = "idle"] /\ resuming[k] = "replanning_required"
  BY DEF ResumeIntoReplanning
<1>2. /\ resuming' \in [ResumeKeys -> {"idle", "plain"} \cup Effects]
      /\ \A j \in ResumeKeys :
            resuming'[j] \in {"guidance_applied", "replanning_required"} => HasLatest(db)
  BY <1>1, MemoryKept
<1>3. HasLatest(db) BY <1>1, MemoryKept
<1>4. CASE ~may
  <2>1. UNCHANGED <<db, live>> BY <1>4 DEF ResumeIntoReplanning
  <2>2. Stands(db, db', overrun') BY <1>1, <2>1, StandsStill
  <2>3. QED BY <1>1, <1>2, <2>1, <2>2, Invariant, StandsStep
<1>5. CASE may
  <2>1. db' = e /\ live' = l BY <1>5 DEF ResumeIntoReplanning
  <2>2. /\ live.pc = "idle" /\ AtRestPaused(db) /\ Settled(db, "lead")
    BY <1>5 DEF Claimed
  <2>3. ~checking /\ ~Ended(db) BY <2>2, MemoryKept DEF AtRestPaused, Ended, RunEnds
  <2>4. a \in AttemptType /\ a.kind = "planning" /\ a.v = db.run.version + 1
    <3>1. db.run.version \in Nat BY Invariant, PlanningTurns
    <3>2. db.run.version + 1 \in Nat /\ 1 \in Nat BY <3>1
    <3>3. QED BY <3>2, AttemptTyped
  <2> HIDE DEF a
  <2>5. l \in PlaceType /\ l.pc = "replan" /\ l.next = a
    BY <2>4 DEF At, PlaceType, Places, AnyKey, Roles
  <2> HIDE DEF l
  <2>6. /\ RowsOK(e) /\ e.feature = "planning" /\ e.run = db.run /\ e.ivs = db.ivs
        /\ e.att = db.att /\ e.sess = db.sess
    <3>1. /\ e \in RowType /\ e.feature = "planning" /\ e.run = db.run /\ e.ivs = db.ivs
          /\ e.att = db.att /\ e.sess = db.sess /\ e.revs = db.revs
      BY Invariant DEF RowsOK, RowType
    <3> HIDE DEF e
    <3>2. RowsOK(e) BY <3>1, Invariant, RowsKept, SameIsSame DEF RowsOK
    <3>3. QED BY <3>1, <3>2
  <2> HIDE DEF e
  <2>7. Active(e) = Active(db) /\ "lead" \notin Active(db)
    BY <2>2, <2>6 DEF Active, Settled
  <2>8. /\ InterventionsHold(e, overrun) /\ ~Ended(e) /\ (Blocked(e) <=> Blocked(db))
        /\ HasLatest(e)
        /\ LatestIs(e, "being_answered") <=> LatestIs(db, "being_answered")
        /\ \A r \in Roles : Answering(e, r) <=> Answering(db, r)
    BY <1>3, <2>3, <2>6, Invariant
       DEF InterventionsHold, Ended, Blocked, LatestIs, Latest, HasLatest, AtRestPaused, Answering
  <2>9. WorkIsExpected(e, l, overrun)
    <3>1. SUFFICES ASSUME ~overrun, NEW r \in Active(db)
                   PROVE  Expected(e, r) /\ (e.run.status = "waiting" => Blocked(e) \/ Answering(e, r))
      BY <2>5, <2>7 DEF WorkIsExpected
    <3>2. /\ Expected(db, r) /\ (db.run.status = "waiting" => Blocked(db) \/ Answering(db, r))
          /\ r # "lead" /\ r \in Roles
      BY <2>7, <3>1, Invariant DEF WorkIsExpected, Active
    <3>3. Expected(e, r) BY <2>6, <2>8, <3>2 DEF Expected
    <3>4. QED BY <2>6, <2>8, <3>2, <3>3
  <2>10. OneAtWork(e, l) BY <2>5, <2>7, <2>8, Invariant DEF OneAtWork
  <2>11. RightPlace(e, l) BY <2>4, <2>5, <2>6, <2>8 DEF RightPlace
  <2>12. Sound(e, l, overrun) BY <2>5, <2>6, <2>8, <2>9, <2>10, <2>11 DEF Sound
  <2>13. Watched(e, l) \/ overrun
    BY <1>1, <2>2, <2>3, <2>7, <2>8, MemoryKept DEF Watched
  <2>14. Sound(db, live, overrun)' BY <1>1, <2>1, <2>12
  <2>15. (Watched(db, live) \/ down \/ checking \/ overrun)' BY <1>1, <2>1, <2>13
  <2>16. MemoryOK'
    <3>1. HasLatest(db') BY <2>1, <2>8
    <3>2. QED BY <1>1, <1>2, <2>3, <3>1 DEF IInv, MemoryOK
  <2>17. Forward(db, db') BY <2>1, <2>6, <2>8 DEF Forward
  <2>18. QED BY <2>14, <2>15, <2>16, <2>17 DEF IInv
<1>6. QED BY <1>4, <1>5

\* The lead plans again, or the run is let go.
LEMMA ReplanStep ==
    ASSUME IInv, Replan
    PROVE  IInv' /\ Forward(db, db')
<1> DEFINE i == Latest(db)
           may == MayBeginReplanning(db, live.key, i, db.run.version + 1, db.att["lead"])
           a == live.next
           e == Replanned(db, live.key, a)
           l == At("turn", "lead", NoAttempt)
<1>1. live.pc = "replan" /\ ~down /\ live.pc # "idle" BY DEF Replan
<1>2. known' = known /\ calls' \subseteq Callers /\ UNCHANGED <<resuming, checking, down, overrun>>
  BY Invariant DEF Replan
<1>3. /\ HasLatest(db) /\ a \in AttemptType /\ a.kind = "planning" /\ a.v = db.run.version + 1
      /\ live.key \in AnyKey
  BY <1>1, Invariant DEF RightPlace, PlaceType
<1>4. CASE may
  <2>1. Apply(Res(e, l, FALSE)) BY <1>4 DEF Replan, Replanned
  <2>2. /\ RowsOK(e) /\ HasLatest(e) /\ e.feature = "planning"
        /\ e.att = [db.att EXCEPT !["lead"] = a]
        /\ Active(e) = {"lead"}
        /\ e.run.status = "running" /\ ~e.run.paused /\ e.run.version = db.run.version + 1
        /\ \A j \in DOMAIN e.ivs : e.ivs[j].status = "answered"
    BY <1>3, <1>4, Invariant, ReplanningBegins
  <2>3. l \in PlaceType /\ l.pc = "turn" /\ l.role = "lead"
    BY NamedPlaces, NoAttemptTyped DEF Places, Roles
  <2> HIDE DEF e, l, a, i
  <2>4. InterventionsHold(e, overrun) /\ ~LatestIs(e, "being_answered")
    BY <2>2, AnsweredHolds, Invariant DEF AllAnswered
  <2>5. e.att["lead"] = a /\ db.run.version \in Nat
    BY <2>2, Invariant, RowFields, PlanningTurns DEF Roles
  <2>6. Expected(e, "lead") BY <1>3, <2>2, <2>4, <2>5 DEF Expected
  <2>7. OneAtWork(e, l) BY <2>2, <2>3 DEF OneAtWork, Ended, RunEnds
  <2>8. RightPlace(e, l) BY <2>3 DEF RightPlace
  <2>9. WorkIsExpected(e, l, overrun) BY <2>2, <2>3, <2>6 DEF WorkIsExpected
  <2>10. Sound(e, l, overrun) BY <2>2, <2>3, <2>4, <2>7, <2>8, <2>9 DEF Sound
  <2>11. Watched(e, l) BY <2>3 DEF Watched
  <2>12. Forward(db, e) BY <2>2, <2>5 DEF Forward
  <2>13. Res(e, l, FALSE) \in ResType /\ Res(e, l, FALSE).d = e /\ Res(e, l, FALSE).l = l
    BY <2>2, <2>3 DEF Res, ResType, RowsOK
  <2>14. Good(db, Res(e, l, FALSE), overrun) BY <2>10, <2>11, <2>12, <2>13 DEF Good
  <2>15. QED BY <1>1, <1>2, <2>1, <2>14, HandlerStep
<1>5. CASE ~may
  <2>1. Apply(Res(db, Idle, TRUE)) BY <1>5 DEF Replan
  <2>2. Idle \in PlaceType /\ Sound(db, Idle, overrun) /\ (Watched(db, live) => Watched(db, Idle))
    BY <1>1, Invariant, IdleIsSound
  <2>3. Res(db, Idle, TRUE) \in ResType /\ Res(db, Idle, TRUE).d = db /\ Res(db, Idle, TRUE).l = Idle
    BY <2>2, Invariant DEF Res, ResType, RowsOK
  <2>4. Good(db, Res(db, Idle, TRUE), overrun) BY <2>2, <2>3, ForwardStill DEF Good
  <2>5. QED BY <1>1, <1>2, <2>1, <2>4, HandlerStep
<1>6. QED BY <1>4, <1>5

\* A blocked run is taken up.
LEMMA ContinueStep ==
    ASSUME IInv, Continue
    PROVE  IInv' /\ Forward(db, db')
<1>1. /\ ~down /\ live.pc = "idle" /\ db.run.status = "waiting" /\ ~db.run.paused
      /\ db' = TransitionRun(db, "running", "none") /\ checking'
      /\ checking' \in BOOLEAN
      /\ UNCHANGED <<known, outcome, live, calls, resuming, down, overrun>>
  BY DEF Continue, Claimed
<1>2. /\ RowsOK(db') /\ Beside(db, db') /\ db'.ivs = db.ivs
      /\ db'.run.status = "running" /\ ~db'.run.paused /\ db'.run.version = db.run.version
  BY <1>1, Invariant, RunGoesOn
<1>3. ~Ended(db) /\ ~Ended(db') BY <1>1, <1>2 DEF Ended, RunEnds
<1>4. ~overrun => AllAnswered(db) BY <1>1, <1>3, Invariant, UnpausedIsAnswered
<1>5. InterventionsHold(db', overrun)
  <2>1. ~overrun => AllAnswered(db') BY <1>2, <1>4 DEF AllAnswered
  <2>2. CASE overrun BY <2>2 DEF InterventionsHold
  <2>3. CASE ~overrun BY <1>2, <2>1, <2>3, AnsweredHolds, Invariant
  <2>4. QED BY <2>2, <2>3
<1>6. /\ Active(db') = Active(db) /\ HasLatest(db') = HasLatest(db)
      /\ LatestIs(db', "being_answered") <=> LatestIs(db, "being_answered")
      /\ \A r \in Roles : Answering(db', r) <=> Answering(db, r)
  BY <1>2 DEF Beside, Active, HasLatest, Latest, LatestIs, Answering
<1>7. \A r \in Roles : Expected(db, r) => Expected(db', r)
  BY <1>2, <1>6 DEF Expected, Beside
<1>8. WorkIsExpected(db', live, overrun)
  BY <1>1, <1>2, <1>6, <1>7, Invariant DEF WorkIsExpected, Active
<1>9. OneAtWork(db', live) BY <1>1, <1>3, <1>6, Invariant DEF OneAtWork
<1>10. RightPlace(db', live) BY <1>1 DEF RightPlace
<1>11. Sound(db, live, overrun)'
  BY <1>1, <1>2, <1>5, <1>8, <1>9, <1>10, Invariant DEF Sound
<1>12. MemoryOK' BY <1>1, <1>2, <1>6 DEF IInv, MemoryOK
<1>13. Forward(db, db') BY <1>2, <1>6 DEF Forward, Beside
<1>14. QED BY <1>1, <1>11, <1>12, <1>13 DEF IInv

\* and recovered, or blocked again.
LEMMA FinishRecoveryStep ==
    ASSUME IInv, FinishRecovery
    PROVE  IInv' /\ Forward(db, db')
<1> DEFINE res == Recover(db)
<1>1. checking /\ ~down /\ UNCHANGED <<known, calls, resuming, down, overrun>> /\ ~checking'
  BY DEF FinishRecovery
<1>2. ~Claimed /\ ~Ended(db) BY <1>1, MemoryKept DEF Claimed, Ended, RunEnds
<1>3. Good(db, res, overrun) /\ (overrun \/ Watched(res.d, res.l))
  BY <1>2, Invariant, RecoverGood
<1>4. Apply(Blocking(res)) \/ Apply(res) BY DEF FinishRecovery, Blocking
<1>5. checking' \in BOOLEAN /\ down' \in BOOLEAN /\ calls' \subseteq Callers
  <2>1. checking' = FALSE BY DEF FinishRecovery
  <2>2. down \in BOOLEAN BY DEF IInv, MemoryOK
  <2>3. QED BY <1>1, <2>1, <2>2, Invariant
<1> HIDE DEF res
<1>6. /\ Good(db, Blocking(res), overrun)
      /\ overrun \/ Watched(Blocking(res).d, Blocking(res).l)
  BY <1>3, Invariant, GoodBlocked
<1>7. QED BY <1>1, <1>3, <1>4, <1>5, <1>6, GoodStep

\* The coordinator stops, with its goroutines and requests.
LEMMA CrashStep ==
    ASSUME IInv, Crash
    PROVE  IInv' /\ Forward(db, db')
<1>1. /\ down' /\ down' \in BOOLEAN /\ live' = Idle /\ calls' = {} /\ ~checking' /\ checking' \in BOOLEAN
      /\ resuming' = [k \in ResumeKeys |-> "idle"]
      /\ UNCHANGED <<known, db, outcome, overrun>>
  BY DEF Crash
<1>2. Idle.pc = "idle" /\ Sound(db, Idle, overrun) BY Invariant, IdleIsSound
<1>3. Sound(db, live, overrun)' BY <1>1, <1>2
<1>4. MemoryOK' BY <1>1, <1>2 DEF IInv, MemoryOK
<1>5. QED BY <1>1, <1>3, <1>4, ForwardStill DEF IInv

\* The coordinator starts again, and takes up the run.
LEMMA RestartStep ==
    ASSUME IInv, Restart
    PROVE  IInv' /\ Forward(db, db')
<1>1. /\ down /\ ~down' /\ down' \in BOOLEAN /\ live.pc = "idle" /\ ~checking
      /\ UNCHANGED <<known, calls, resuming, checking, overrun>>
  BY MemoryKept DEF Restart
<1>2. CASE Recoverable(db, Autonomous)
  <2>1. ~Claimed /\ ~Ended(db) BY <1>1, <1>2 DEF Claimed, Ended, RunEnds, Recoverable
  <2>2. Good(db, Recover(db), overrun) /\ (overrun \/ Watched(Recover(db).d, Recover(db).l))
    BY <2>1, Invariant, RecoverGood
  <2>3. Apply(Recover(db)) BY <1>2 DEF Restart
  <2>4. checking' \in BOOLEAN /\ calls' \subseteq Callers BY <1>1, Invariant
  <2>5. QED BY <1>1, <2>2, <2>3, <2>4, GoodStep
<1>3. CASE ~Recoverable(db, Autonomous)
  <2>1. UNCHANGED <<db, outcome, live>> BY <1>3 DEF Restart
  <2>2. Active(db) = {}
    <3>1. db.run.status \in RunStatuses BY Invariant, RowFields DEF RunType
    <3>2. Ended(db) => Active(db) = {} BY Invariant DEF OneAtWork
    <3>3. QED BY <1>3, <3>1, <3>2 DEF Recoverable, RunStatuses, Ended
  <2>3. (Watched(db, live) \/ down \/ checking \/ overrun)' BY <2>1, <2>2 DEF Watched
  <2>4. Sound(db, live, overrun)' BY <1>1, <2>1, Invariant
  <2>5. MemoryOK' BY <1>1, <2>1 DEF IInv, MemoryOK
  <2>6. QED BY <2>1, <2>3, <2>4, <2>5, ForwardStill DEF IInv
<1>4. QED BY <1>2, <1>3

\* A provider's turn ends.
LEMMA EndTurnStep ==
    ASSUME IInv, NEW r \in Roles, EndTurn(r)
    PROVE  IInv' /\ Forward(db, db')
<1>1. UNCHANGED <<db, live, calls, resuming, checking, down, overrun>> BY DEF EndTurn
<1>2. outcome' \in [Roles -> Outcomes]
  BY DEF EndTurn, IInv, MemoryOK, Outcomes
<1>3. known' \subseteq [att : AttemptType, out : Outcomes]
  <2>1. db.att[r] \in AttemptType BY Invariant, RowFields
  <2>2. outcome'[r] \in Outcomes BY <1>2
  <2>3. [att |-> db.att[r], out |-> outcome'[r]] \in [att : AttemptType, out : Outcomes]
    BY <2>1, <2>2
  <2>4. known \subseteq [att : AttemptType, out : Outcomes] BY DEF IInv, MemoryOK
  <2>5. QED BY <2>3, <2>4 DEF EndTurn
<1>4. MemoryOK' BY <1>1, <1>2, <1>3 DEF IInv, MemoryOK
<1>5. QED BY <1>1, <1>4, ForwardStill DEF IInv

-----------------------------------------------------------------------------
(* The invariant, and what it says.                                        *)

LEMMA InitSound ==
    ASSUME Init
    PROVE  IInv
<1> DEFINE first == [kind |-> "planning", v |-> 1, n |-> 1, t |-> 0]
           run == [status |-> "running", kind |-> "none", paused |-> FALSE, from |-> "none",
                   version |-> 1, limit |-> RoundLimit]
           sess == [r \in Roles |-> IF r = "lead" THEN [status |-> "starting", provider |-> FALSE]
                                    ELSE [status |-> "absent", provider |-> FALSE]]
           att == [r \in Roles |-> IF r = "lead" THEN first ELSE NoAttempt]
<1>1. first \in AttemptType /\ first.kind = "planning" /\ first.v = 1 /\ NoAttempt \in AttemptType
  BY NoAttemptTyped DEF AttemptType
<1>2. /\ run \in RunType /\ RunOK(run) /\ run.version = 1 /\ run.status = "running" /\ ~run.paused
  BY LimitAssumption DEF RunType, RunOK, RunValid, RunStatuses
<1>3. /\ sess \in [Roles -> SessionType]
      /\ \A r \in Roles : r # "lead" => sess[r].status = "absent"
  BY DEF SessionType, SessionStatuses
<1>4. /\ att \in [Roles -> AttemptType] /\ att["lead"] = first
      /\ \A r \in Roles : r # "lead" => att[r] = NoAttempt
  BY <1>1 DEF Roles
<1>5. NoPlan \in PlanType BY DEF NoPlan, PlanType
<1>6. db = [feature |-> "planning", ivs |-> <<>>, acts |-> {}, cmds |-> {}, revs |-> {},
            plan |-> NoPlan, run |-> run, att |-> att, work |-> att, sess |-> sess]
  <2> DEFINE none == [r \in Roles |-> NoAttempt]
             absent == [r \in Roles |-> [status |-> "absent", provider |-> FALSE]]
  <2>1. /\ [none EXCEPT !["lead"] = first] = att
        /\ [absent EXCEPT !["lead"] = [status |-> "starting", provider |-> FALSE]] = sess
    BY DEF Roles
  <2>2. db = [CreateSession(CreateRun([feature |-> "planning", ivs |-> <<>>, acts |-> {}, cmds |-> {},
                                       revs |-> {}, plan |-> NoPlan, run |-> <<>>,
                                       att |-> none, work |-> none, sess |-> absent],
                                      RoundLimit), "lead")
              EXCEPT !.att["lead"] = first, !.work["lead"] = first]
    BY DEF Init
  <2> HIDE DEF none, absent, first, att, sess
  <2>3. QED BY <2>1, <2>2 DEF CreateSession, CreateRun, WithRun
<1>7. /\ live = At("turn", "lead", NoAttempt) /\ known = {} /\ calls = {}
      /\ resuming = [k \in ResumeKeys |-> "idle"]
      /\ checking = FALSE /\ down = FALSE /\ overrun = FALSE
      /\ outcome = [r \in Roles |-> IF r = "lead" THEN "live" ELSE "none"]
  BY DEF Init
<1> HIDE DEF run, sess, att, first
<1>8. /\ db \in RowType /\ db.run = run /\ db.ivs = <<>> /\ db.revs = {} /\ db.att = att
      /\ db.sess = sess /\ db.feature = "planning"
  <2>1. <<>> \in Seq(InterventionType) OBVIOUS
  <2>2. QED BY <1>2, <1>3, <1>4, <1>5, <1>6, <2>1 DEF RowType
<1>9. ~HasLatest(db) /\ AllAnswered(db) BY <1>8 DEF HasLatest, AllAnswered
<1>10. RowsOK(db)
  <2>1. IsFiniteSet({}) /\ Cardinality({}) = 0 BY FS_EmptySet
  <2>2. AskedFor(db) BY <1>2, <1>8, <2>1 DEF AskedFor
  <2>3. IvsOK(db.ivs) BY <1>8 DEF IvsOK
  <2>4. \A r \in Roles : db.att[r].kind # "intervention"
    BY <1>1, <1>4, <1>8 DEF NoAttempt
  <2>5. QED BY <1>2, <1>8, <2>2, <2>3, <2>4 DEF RowsOK
<1>11. Active(db) \subseteq {"lead"} BY <1>3, <1>8 DEF Active
<1>12. live \in PlaceType /\ live.pc = "turn" /\ live.role = "lead"
  BY <1>7, NamedPlaces, NoAttemptTyped DEF Places, Roles
<1>13. overrun \in BOOLEAN BY <1>7
<1>14. InterventionsHold(db, overrun) BY <1>9, <1>10, <1>13, AnsweredHolds
<1>15. OneAtWork(db, live) BY <1>2, <1>8, <1>11, <1>12 DEF OneAtWork, Ended, RunEnds
<1>16. RightPlace(db, live) BY <1>12 DEF RightPlace
<1>17. WorkIsExpected(db, live, overrun)
  BY <1>1, <1>2, <1>4, <1>8, <1>9, <1>11, <1>12 DEF WorkIsExpected, Expected, LatestIs
<1>18. Watched(db, live) BY <1>12 DEF Watched
<1>19. Sound(db, live, overrun) BY <1>10, <1>12, <1>14, <1>15, <1>16, <1>17 DEF Sound
<1>20. MemoryOK BY <1>7 DEF MemoryOK, Outcomes
<1>21. QED BY <1>18, <1>19, <1>20 DEF IInv

LEMMA StepSound ==
    ASSUME IInv, [Next]_vars
    PROVE  IInv' /\ (Forward(db, db') \/ UNCHANGED vars)
<1>1. CASE UNCHANGED vars
  <2>1. /\ db' = db /\ outcome' = outcome /\ known' = known /\ live' = live /\ calls' = calls
        /\ resuming' = resuming /\ checking' = checking /\ down' = down /\ overrun' = overrun
    BY <1>1 DEF vars
  <2>2. MemoryOK' BY <2>1 DEF IInv, MemoryOK
  <2>3. QED BY <1>1, <2>1, <2>2 DEF IInv
<1>2. CASE Goroutine
  BY <1>2, SessionSteps, FinishTurnStep, FinishInterventionStep, FinishBadlyStep, ChainStep,
     PublishStep, ImplementStep, ReattachStep, ReleaseStep, ReplanStep DEF Goroutine
<1>3. CASE Requests
  BY <1>3, RequestSteps, SendCommandStep, PauseStep, QueueGuidanceStep, ReadingSteps,
     ContinueStep, ActOnResumeStep, ResumeIntoReplanningStep DEF Requests
<1>4. CASE FinishRecovery \/ (\E c \in Callers : Advance(c)) \/ Crash \/ Restart
             \/ \E r \in Roles : EndTurn(r)
  BY <1>4, FinishRecoveryStep, AdvanceStep, CrashStep, RestartStep, EndTurnStep
<1>5. QED BY <1>1, <1>2, <1>3, <1>4 DEF Next

\* In every state that a run and its coordinator can reach, the rows are
\* sound, one session at most is at work, and what is about to start is what
\* the rows call for.
THEOREM StateIsSound == Spec => []IInv
<1>1. Init => IInv BY InitSound
<1>2. IInv /\ [Next]_vars => IInv' BY StepSound
<1>3. QED BY <1>1, <1>2, PTL DEF Spec

\* Every stored row satisfies its own rules; a paused run at rest knows the
\* wait it returns to; at most one intervention is unfinished, the last; every
\* plan version after the first has an answered intervention of its own
\* (execution/model.go, run_pause_store.go, intervention_store.go).
THEOREM LedgerAlwaysSound == Spec => []LedgerIsSound
<1>1. ASSUME IInv PROVE LedgerIsSound
  <2>1. /\ RowsOK(db) /\ RunOK(db.run) /\ IvsOK(db.ivs) /\ AskedFor(db) /\ live \in PlaceType
    BY <1>1, Invariant DEF RowsOK
  <2>2. TypeOK
    <3>1. \A r \in Roles : db.sess[r].status \in SessionStatuses /\ outcome[r] \in Outcomes
      BY <1>1, <2>1, RowFields DEF SessionType, IInv, MemoryOK
    <3>2. QED BY <1>1, <2>1, <3>1, Invariant DEF TypeOK, RunOK, IvsOK, PlaceType
  <2>3. PauseRemembersItsWait BY <2>1 DEF RunOK, PauseRemembersItsWait
  <2>4. OneInterventionAtATime
    BY <2>1 DEF IvsOK, OneInterventionAtATime, Unfinished, Latest
  <2>5. PlansAreAskedFor BY <2>1 DEF AskedFor, PlansAreAskedFor
  <2>6. QED BY <2>2, <2>3, <2>4, <2>5 DEF LedgerIsSound
<1>2. IInv => LedgerIsSound BY <1>1
<1>3. QED BY <1>2, StateIsSound, PTL

\* One agent at most is at work for a run, and the goroutine that holds the
\* run observes it, or the run waits for the user over it: through
\* interventions, blocked turns, resumes and restarts (remote_lead.go's
\* observers, recovery.go).
THEOREM OneAgentAlwaysAtWork == Spec => []OneAgentAtWork
<1>1. ASSUME IInv PROVE OneAgentAtWork
  <2>1. OneAtWork(db, live) BY <1>1, Invariant
  <2>2. Cardinality(Active(db)) <= 1
    <3>1. CASE Active(db) = {} BY <3>1, FS_EmptySet
    <3>2. CASE Active(db) # {}
      <4>1. PICK r : r \in Active(db) BY <3>2
      <4>2. Active(db) = {r} BY <2>1, <4>1 DEF OneAtWork
      <4>3. QED BY <4>2, FS_Singleton
    <3>3. QED BY <3>1, <3>2
  <2>3. ASSUME NEW r \in Active(db)
        PROVE  \/ live.role = r /\ live.pc \in {"turn", "reattach", "release"}
               \/ db.run.status = "waiting" /\ "blocker" \in {db.run.kind, db.run.from}
               \/ down \/ checking \/ overrun
    <3>1. Watched(db, live) \/ down \/ checking \/ overrun BY <1>1, MemoryKept
    <3>2. QED BY <2>1, <3>1 DEF Watched, OneAtWork, Blocked
  <2>4. QED BY <2>2, <2>3 DEF OneAgentAtWork
<1>2. IInv => OneAgentAtWork BY <1>1
<1>3. QED BY <1>2, StateIsSound, PTL

\* No workflow turn is admitted while the run is paused, by whatever handler,
\* goroutine or recovery: a checkpoint that names a new attempt of the
\* workflow was written from an unpaused run, or begins a new plan version.
THEOREM PauseAlwaysAGate == Spec => PauseIsAGate
<1> DEFINE A == \A r \in Roles : (db.att'[r] # db.att[r] /\ db.att'[r].kind # "intervention")
                                    => ~db.run.paused \/ db'.run.version > db.run.version
<1>1. IInv /\ [Next]_vars => [A]_vars
  <2>1. SUFFICES ASSUME IInv, [Next]_vars PROVE A \/ UNCHANGED vars OBVIOUS
  <2>2. Forward(db, db') \/ UNCHANGED vars BY <2>1, StepSound
  <2>3. QED BY <2>2 DEF Forward
<1>2. QED BY <1>1, StateIsSound, PTL DEF Spec, PauseIsAGate

-----------------------------------------------------------------------------
(* The plan that is implemented is one the reviewer approved.  The proof   *)
(* follows the approval from the turn that gave it: a completed approval   *)
(* attempt is known; only the submission it names is published; only a     *)
(* published plan has an implementation turn, which every later one takes  *)
(* over; and a new submission is made only by a lead who plans.            *)

\* The reviewer approved the submission n of the plan version v.
Approved(v, n) == [att |-> Attempt("approval", v, n), out |-> "completed"] \in known

\* r may take the turn a: an approval is asked for once per attempt, and only
\* the lead implements, what was approved.
MayTake(d, r, a) ==
    /\ a.kind = "approval" => a.t = 0
    /\ a.kind = "implementation" => r = "lead" /\ Approved(a.v, d.plan.subs)

\* The turns that the rows name, and the plan they say is published.
Lawful(d) ==
    /\ d.plan.published => Approved(d.run.version, d.plan.subs)
    /\ \A r \in Roles : MayTake(d, r, d.att[r])

\* A reviewer who was heard to approve is known to have.
Judged(d) ==
    d.att["reviewer"].kind = "approval" /\ outcome["reviewer"] = "completed"
       => [att |-> d.att["reviewer"], out |-> "completed"] \in known

\* The turn that the goroutine is about to start.
Starts(d, l) == l.pc \in {"chain", "implement"} => MayTake(d, l.role, l.next)

AInv ==
    /\ Lawful(db) /\ Judged(db) /\ Starts(db, live)
    /\ db.att["lead"].kind # "intervention" => db.work["lead"] = db.att["lead"]
    /\ db.work["lead"].kind = "implementation" => Approved(db.work["lead"].v, db.plan.subs)

-----------------------------------------------------------------------------
(* What a handler may come to.                                             *)

Ready(d) == RowsOK(d) /\ Lawful(d) /\ Judged(d) /\ Starts(d, live)

\* A new submission is the work of a lead who plans.
Allowed(d, res) ==
    /\ Lawful(res.d) /\ Starts(res.d, res.l)
    /\ res.d.plan.subs = d.plan.subs \/ res.d.att["lead"].kind = "planning"

\* The same turns, of the same submission.
SameTurns(d, e) ==
    /\ e.att = d.att /\ e.run.version = d.run.version
    /\ e.plan.subs = d.plan.subs /\ e.plan.published = d.plan.published

LEMMA SameReady ==
    ASSUME NEW d, Ready(d), NEW e, RowsOK(e), SameTurns(d, e)
    PROVE  Ready(e)
BY DEF Ready, SameTurns, Lawful, Judged, Starts, MayTake

LEMMA AllowedAfter ==
    ASSUME NEW d, NEW e, e.plan.subs = d.plan.subs, NEW res, Allowed(e, res)
    PROVE  Allowed(d, res)
BY DEF Allowed

LEMMA MayTakeStill ==
    ASSUME NEW d, NEW e, e.plan.subs = d.plan.subs, NEW r, NEW a, MayTake(d, r, a)
    PROVE  MayTake(e, r, a)
BY DEF MayTake

\* A turn of a plan, and an answer to an intervention, need no approval.
LEMMA PlansFreely ==
    ASSUME NEW d, NEW r, NEW a, a.kind \in {"planning", "intervention", "none"}
    PROVE  MayTake(d, r, a)
BY DEF MayTake

\* A place that is taken, on rows with the same turns.
LEMMA AllowedPlace ==
    ASSUME NEW d, Ready(d), NEW e, SameTurns(d, e), NEW l,
           l.pc \in {"chain", "implement"} => MayTake(d, l.role, l.next), NEW err
    PROVE  Allowed(d, Res(e, l, err))
<1>1. Res(e, l, err).d = e /\ Res(e, l, err).l = l BY DEF Res
<1>2. Lawful(e) BY DEF Ready, SameTurns, Lawful, MayTake
<1>3. Starts(e, l) BY MayTakeStill DEF Starts, SameTurns
<1>4. QED BY <1>1, <1>2, <1>3 DEF Allowed, SameTurns

LEMMA SameIsSameTurns == ASSUME NEW d PROVE SameTurns(d, d)
BY DEF SameTurns

\* A handler that refuses, or finds nothing to do.
LEMMA AllowedHere ==
    ASSUME NEW d, Ready(d), NEW e, SameTurns(d, e)
    PROVE  Allowed(d, Refused(e)) /\ Allowed(d, Nothing(e))
<1>1. live.pc \in {"chain", "implement"} => MayTake(d, live.role, live.next)
  BY DEF Ready, Starts
<1>2. QED BY <1>1, AllowedPlace DEF Refused, Nothing

LEMMA AllowedStill ==
    ASSUME NEW d, Ready(d)
    PROVE  Allowed(d, Refused(d)) /\ Allowed(d, Nothing(d))
BY AllowedHere, SameIsSameTurns

\* The goroutine is at a place where it starts nothing.
LEMMA QuietPlace ==
    ASSUME NEW d, Ready(d), NEW e, SameTurns(d, e), NEW pc, pc \notin {"chain", "implement"},
           NEW r, NEW err
    PROVE  /\ Allowed(d, Res(e, At(pc, r, NoAttempt), err))
           /\ Allowed(d, Res(e, Idle, err))
<1> DEFINE l == At(pc, r, NoAttempt)
<1>1. l.pc = pc /\ Idle.pc = "idle" BY DEF At, Idle
<1> HIDE DEF l
<1>2. Allowed(d, Res(e, l, err)) /\ Allowed(d, Res(e, Idle, err)) BY <1>1, AllowedPlace
<1>3. QED BY <1>2 DEF l

\* A turn that begins.
LEMMA AllowedTurn ==
    ASSUME NEW d, Ready(d), NEW r \in Roles, NEW a, MayTake(d, r, a), NEW e,
           e.att = [d.att EXCEPT ![r] = a], e.plan = d.plan,
           e.run.version = d.run.version
    PROVE  Allowed(d, Res(e, At("turn", r, NoAttempt), FALSE))
<1> DEFINE l == At("turn", r, NoAttempt)
           res == Res(e, l, FALSE)
<1>1. res.d = e /\ res.l = l /\ l.pc = "turn" BY DEF Res, At
<1>2. d.att \in [Roles -> AttemptType] BY RowFields DEF Ready
<1>3. \A x \in Roles : (e.att[x] = a /\ x = r) \/ e.att[x] = d.att[x] BY <1>2
<1>4. \A x \in Roles : MayTake(e, x, e.att[x])
  BY <1>3, MayTakeStill DEF Ready, Lawful
<1>5. Lawful(e) BY <1>4 DEF Lawful, Ready
<1> HIDE DEF res, l
<1>6. Starts(e, l) BY <1>1 DEF Starts
<1>7. Allowed(d, res) BY <1>1, <1>5, <1>6 DEF Allowed
<1>8. QED BY <1>7 DEF res, l

-----------------------------------------------------------------------------
(* What the transactions leave alone.                                      *)

\* A run that waits.
LEMMA WaitReady ==
    ASSUME NEW d, Ready(d), NEW kind \in WaitKinds
    PROVE  Ready(waitRun(d, kind)) /\ SameTurns(d, waitRun(d, kind))
<1> DEFINE e == waitRun(d, kind)
<1>1. RowsOK(d) /\ d \in RowType BY DEF Ready, RowsOK
<1>2. RowsOK(e) /\ Beside(d, e) /\ e.run.version = d.run.version BY <1>1, WaitRun
<1>3. e.plan = d.plan BY <1>1 DEF waitRun, TransitionRun, RowType
<1> HIDE DEF e
<1>4. SameTurns(d, e) BY <1>2, <1>3 DEF SameTurns, Beside
<1>5. Ready(e) BY <1>2, <1>4, SameReady
<1>6. QED BY <1>4, <1>5 DEF e

\* A run that goes on, or stops.
LEMMA RunMovesPlan ==
    ASSUME NEW d, RowsOK(d), NEW to, NEW kind
    PROVE  TransitionRun(d, to, kind).plan = d.plan
BY DEF RowsOK, RowType, TransitionRun

\* A session takes another status.
LEMMA SessionReady ==
    ASSUME NEW d, Ready(d), NEW r \in Roles, NEW to \in SessionStatuses
    PROVE  /\ Ready(TransitionSession(d, r, to)) /\ SameTurns(d, TransitionSession(d, r, to))
           /\ Ready(WithStatus(d, r, to)) /\ SameTurns(d, WithStatus(d, r, to))
<1>1. RowsOK(d) /\ d \in RowType BY DEF Ready, RowsOK
<1>2. ASSUME NEW s \in SessionType PROVE Ready(WithSession(d, r, s)) /\ SameTurns(d, WithSession(d, r, s))
  <2> DEFINE e == WithSession(d, r, s)
  <2>1. RowsOK(e) /\ e.run = d.run /\ e.att = d.att BY <1>1, SessionMoves
  <2>2. e.plan = d.plan BY <1>1 DEF WithSession, RowType
  <2> HIDE DEF e
  <2>3. SameTurns(d, e) BY <2>1, <2>2 DEF SameTurns
  <2>4. Ready(e) BY <2>1, <2>3, SameReady
  <2>5. QED BY <2>3, <2>4 DEF e
<1>3. QED BY <1>1, <1>2, SessionStands

\* The turns of the plan are not its messages' number.
LEMMA TurnPlans ==
    ASSUME NEW d, RowsOK(d), NEW r, NEW a
    PROVE  /\ BeginAutonomousTurn(d, r, a).plan = d.plan
           /\ BeginNewSessionTurn(d, r, a).plan = d.plan
<1>1. d \in RowType BY DEF RowsOK
<1>2. QED BY <1>1 DEF BeginAutonomousTurn, BeginNewSessionTurn, Turned, RowType

LEMMA AskedTurnPlans ==
    ASSUME NEW d, RowsOK(d), NEW r, NEW a, NEW i
    PROVE  /\ BeginWorkerTurn(d, i, r, a).plan = d.plan
           /\ BeginInterventionTurn(d, i, a).plan = d.plan
<1>1. d \in RowType BY DEF RowsOK
<1>2. QED BY <1>1 DEF BeginWorkerTurn, BeginInterventionTurn, Turned, RowType

\* An unpaused run begins a turn that may be taken.
LEMMA TurnAllowed ==
    ASSUME NEW d, Ready(d), ~d.run.paused, NEW r \in Roles, NEW a \in AttemptType,
           a.kind # "intervention", MayTake(d, r, a)
    PROVE  /\ Allowed(d, Begun(d, r, a))
           /\ Allowed(d, Res(BeginNewSessionTurn(d, r, a), At("turn", r, NoAttempt), FALSE))
           /\ \A id \in Replies :
                 Allowed(d, Res(BeginWorkerTurn(d, id, r, a), At("turn", r, NoAttempt), FALSE))
<1>1. RowsOK(d) BY DEF Ready
<1>2. ASSUME NEW e, Works(d, e, r, a), e.plan = d.plan
      PROVE  Allowed(d, Res(e, At("turn", r, NoAttempt), FALSE))
  BY <1>2, AllowedTurn DEF Works
<1>3. Allowed(d, Res(BeginAutonomousTurn(d, r, a), At("turn", r, NoAttempt), FALSE))
  BY <1>1, <1>2, TurnFields, TurnPlans
<1>4. Allowed(d, Res(BeginNewSessionTurn(d, r, a), At("turn", r, NoAttempt), FALSE))
  BY <1>1, <1>2, TurnFields, TurnPlans
<1>5. ASSUME NEW id \in Replies
      PROVE  Allowed(d, Res(BeginWorkerTurn(d, id, r, a), At("turn", r, NoAttempt), FALSE))
  <2> DEFINE e == BeginWorkerTurn(d, id, r, a)
  <2>1. Works(d, e, r, a) BY <1>1, TurnFields
  <2>2. e.plan = d.plan BY <1>1, AskedTurnPlans
  <2> HIDE DEF e
  <2>3. Allowed(d, Res(e, At("turn", r, NoAttempt), FALSE)) BY <1>2, <2>1, <2>2
  <2>4. QED BY <2>3 DEF e
<1>6. QED BY <1>3, <1>4, <1>5 DEF Begun

-----------------------------------------------------------------------------
(* The handlers, from the rows d they found.                               *)

LEMMA AdvanceInterventionAllowed ==
    ASSUME NEW d, Ready(d), Deliverable(d)
    PROVE  Allowed(d, AdvanceIntervention(d))
<1> DEFINE i == Latest(d)
           a == Attempt("intervention", d.run.version, i)
           r == d.ivs[i].target
           e == BeginInterventionTurn(d, i, a)
           begun == Res(e, At("turn", r, NoAttempt), FALSE)
<1>1. AdvanceIntervention(d) = IF Claimed THEN Nothing(d)
                               ELSE IF MayBeginInterventionTurn(d, i) THEN begun ELSE Refused(d)
  BY DEF AdvanceIntervention
<1>2. CASE MayBeginInterventionTurn(d, i)
  <2>1. RowsOK(d) /\ HasLatest(d) BY DEF Ready, Deliverable
  <2>2. d.run.version \in Nat /\ i \in Nat BY <2>1, RowFields, LatestFields DEF RunType
  <2>3. a \in AttemptType /\ a.kind = "intervention" BY <2>2 DEF Attempt, AttemptType
  <2> HIDE DEF a
  <2>4. r \in Roles /\ e.run = d.run /\ e.att = [d.att EXCEPT ![r] = a]
    BY <1>2, <2>1, <2>3, InterventionBegins
  <2>5. e.plan = d.plan BY <2>1, AskedTurnPlans
  <2>6. MayTake(d, r, a) BY <2>3, PlansFreely
  <2> HIDE DEF e, r
  <2>7. Allowed(d, begun) BY <2>4, <2>5, <2>6, AllowedTurn
  <2> HIDE DEF begun
  <2>8. QED BY <1>1, <2>7, AllowedStill
<1>3. CASE ~MayBeginInterventionTurn(d, i) BY <1>1, <1>3, AllowedStill
<1>4. QED BY <1>2, <1>3

\* The next turn of a plan, of a role at rest.
LEMMA StartTurnAllowed ==
    ASSUME NEW d, Ready(d), NEW r \in Roles, NEW a \in AttemptType, a.kind = "planning"
    PROVE  Allowed(d, StartTurn(d, r, a))
<1>1. MayTake(d, r, a) BY PlansFreely
<1>2. ~d.run.paused => Allowed(d, Begun(d, r, a)) BY <1>1, TurnAllowed
<1>3. QED BY <1>2, AllowedStill DEF StartTurn, MayBeginAutonomousTurn

LEMMA StartPlanningReviewAllowed ==
    ASSUME NEW d, Ready(d)
    PROVE  Allowed(d, StartPlanningReview(d))
<1> DEFINE a == Attempt("planning", 1, 1)
           b == Attempt("planning", d.run.version, 1)
           first == Res(BeginNewSessionTurn(d, "reviewer", a), At("turn", "reviewer", NoAttempt), FALSE)
<1>1. d.run.version \in Nat BY PlanningTurns DEF Ready
<1>2. a \in AttemptType /\ a.kind = "planning" /\ b \in AttemptType /\ b.kind = "planning"
  BY <1>1, AttemptTyped
<1>3. \/ StartPlanningReview(d) \in {Refused(d), Nothing(d), StartTurn(d, "reviewer", b)}
      \/ ~d.run.paused /\ StartPlanningReview(d) = first
  BY DEF StartPlanningReview, StartReplanningReview, StartFirstReview, MayBeginNewSessionTurn
<1> HIDE DEF a, b
<1>4. Allowed(d, StartTurn(d, "reviewer", b)) BY <1>2, StartTurnAllowed DEF Roles
<1>5. ~d.run.paused => Allowed(d, first)
  <2>1. MayTake(d, "reviewer", a) BY <1>2, PlansFreely
  <2>2. "reviewer" \in Roles BY DEF Roles
  <2>3. QED BY <1>2, <2>1, <2>2, TurnAllowed
<1> HIDE DEF first
<1>6. QED BY <1>3, <1>4, <1>5, AllowedStill

LEMMA StartPlanningRoundAllowed ==
    ASSUME NEW d, Ready(d), NEW k \in AnyKey
    PROVE  Allowed(d, StartPlanningRound(d, k))
<1> DEFINE capped == d.plan.msgs > 0 /\ planningRoundLimitReached(d) /\ ~d.plan.submitted
           more == ExtendPlanningRoundLimit(d, k)
           granted == IF capped THEN more ELSE d
           next == IF LastIsLead(d) THEN "reviewer" ELSE "lead"
           turn == IF LastIsLead(d) THEN ReviewerMessages(d) + 1 ELSE LeadMessages(d) + 1
           a == Attempt("planning", d.run.version, turn)
           round == StartPlanningRound(d, k)
           capRun == waitRun(d, "round_cap")
           again == TransitionRun(d, "running", "none")
           place == At("publish", "lead", NoAttempt)
<1>1. RowsOK(d) /\ d \in RowType BY DEF Ready, RowsOK
<1>2. a \in AttemptType /\ a.kind = "planning" /\ next \in Roles
  BY <1>1, PlanningTurns, AttemptTyped DEF Roles
<1>3. SameTurns(d, granted) /\ Ready(granted)
  <2>1. Alike(d, more) BY <1>1, RoundGranted
  <2>2. more.plan = d.plan BY <1>1 DEF ExtendPlanningRoundLimit, RowType
  <2> HIDE DEF more
  <2>3. SameTurns(d, more) /\ RowsOK(more) BY <2>1, <2>2 DEF SameTurns, Alike
  <2>4. QED BY <2>3, SameIsSameTurns, SameReady
<1>4. Allowed(d, StartTurn(granted, next, a)) /\ Allowed(d, Refused(granted))
  <2> HIDE DEF granted, next, a
  <2>1. Allowed(granted, StartTurn(granted, next, a)) BY <1>2, <1>3, StartTurnAllowed
  <2>2. QED BY <1>3, <2>1, AllowedAfter, AllowedHere DEF SameTurns
<1>5. Allowed(d, Nothing(capRun))
  <2>1. SameTurns(d, capRun) BY WaitReady DEF WaitKinds
  <2>2. QED BY <2>1, AllowedHere
<1>6. ~d.run.paused => Allowed(d, Res(again, place, FALSE))
  <2> SUFFICES ASSUME ~d.run.paused PROVE Allowed(d, Res(again, place, FALSE)) OBVIOUS
  <2>1. Beside(d, again) /\ again.run.version = d.run.version BY <1>1, RunGoesOn
  <2>2. again.plan = d.plan BY <1>1, RunMovesPlan
  <2> HIDE DEF again
  <2>3. SameTurns(d, again) BY <2>1, <2>2 DEF SameTurns, Beside
  <2>4. QED BY <2>3, QuietPlace
<1>7. \/ round \in {Nothing(capRun), Nothing(d), Refused(d), Refused(granted),
                    StartTurn(granted, next, a)}
      \/ ~d.run.paused /\ round = Res(again, place, FALSE)
  <2> DEFINE unready == d.run.status # "waiting" \/ \E r \in Roles : ~Settled(d, r)
             busy == ~d.run.paused /\ d.feature = "planning" /\ d.run.status = "running"
             closed == d.run.paused \/ d.feature # "planning"
  <2>1. round = CASE closed -> Refused(d)
                  [] busy -> Nothing(d)
                  [] OTHER ->
                     IF unready THEN Refused(d)
                     ELSE IF capped /\ d.run.kind # "round_cap" THEN Nothing(capRun)
                     ELSE IF capped /\ (Claimed \/ ~MayExtendRounds(d, k, d.run.limit)) THEN Nothing(d)
                     ELSE IF d.plan.submitted
                     THEN IF d.plan.published THEN Nothing(d)
                          ELSE IF Claimed THEN Refused(d)
                          ELSE Res(again, place, FALSE)
                     ELSE IF d.plan.msgs < 2 \/ (LastIsLead(d) /\ d.plan.msgs < 3) THEN Refused(granted)
                     ELSE IF Completed(next) THEN StartTurn(granted, next, a)
                     ELSE Refused(granted)
    BY DEF StartPlanningRound, Nothing
  <2>2. ~closed => ~d.run.paused OBVIOUS
  <2>3. ~(closed /\ busy) OBVIOUS
  <2> HIDE DEF capped, capRun, granted, again, place, next, a, unready, busy, closed, round
  <2>4. QED BY <2>1, <2>2, <2>3
<1> HIDE DEF round, capRun, granted, again, place, next, a
<1>8. Allowed(d, round) BY <1>4, <1>5, <1>6, <1>7, AllowedStill
<1>9. QED BY <1>8 DEF round

\* The first implementation turn is of the published plan.
LEMMA StartImplementationAllowed ==
    ASSUME NEW d, Ready(d)
    PROVE  Allowed(d, StartImplementation(d))
<1> DEFINE first == Attempt("implementation", d.run.version, 1)
           e == [d EXCEPT !.feature = "implementing"]
           l == At("implement", "lead", first)
<1>1. \/ StartImplementation(d) \in {Refused(d), Nothing(d)}
      \/ d.plan.published /\ StartImplementation(d) = Res(e, l, FALSE)
  BY DEF StartImplementation
<1>2. d \in RowType BY DEF Ready, RowsOK
<1>3. SameTurns(d, e) BY <1>2 DEF RowType, SameTurns
<1>4. l.role = "lead" /\ l.next = first /\ first.kind = "implementation" /\ first.v = d.run.version
  BY DEF At, Attempt
<1>5. d.plan.published => MayTake(d, l.role, l.next)
  BY <1>4 DEF Ready, Lawful, MayTake
<1> HIDE DEF e, l, first
<1>6. d.plan.published => Allowed(d, Res(e, l, FALSE)) BY <1>3, <1>5, AllowedPlace
<1>7. QED BY <1>1, <1>6, AllowedStill

LEMMA RecoverIdlePlanningAllowed ==
    ASSUME NEW d, Ready(d)
    PROVE  Allowed(d, RecoverIdlePlanning(d))
<1> DEFINE v == d.run.version
           checkpoint == waitRun(d, "phase_checkpoint")
           capRun == waitRun(d, "round_cap")
           next == IF LastIsLead(d) THEN "reviewer" ELSE "lead"
           turn == IF LastIsLead(d) THEN ReviewerMessages(d) + 1 ELSE LeadMessages(d) + 1
           a == Attempt("planning", v, turn)
           place == At("publish", "lead", NoAttempt)
           result == RecoverIdlePlanning(d)
           begun == Begun(d, next, a)
           may == MayBeginAutonomousTurn(d, next, d.att[next], "planning", TRUE, FALSE)
<1>1. RowsOK(d) BY DEF Ready
<1>2. a \in AttemptType /\ a.kind = "planning" /\ next \in Roles
  BY <1>1, PlanningTurns, AttemptTyped DEF Roles
<1>3. /\ Ready(checkpoint) /\ SameTurns(d, checkpoint)
      /\ Ready(capRun) /\ SameTurns(d, capRun)
  BY WaitReady DEF WaitKinds
<1>4. Allowed(d, Nothing(checkpoint)) /\ Allowed(d, Nothing(capRun)) BY <1>3, AllowedHere
<1>5. Allowed(d, StartPlanningReview(checkpoint))
  <2> HIDE DEF checkpoint
  <2>1. Allowed(checkpoint, StartPlanningReview(checkpoint)) BY <1>3, StartPlanningReviewAllowed
  <2>2. QED BY <1>3, <2>1, AllowedAfter DEF SameTurns
<1>6. Allowed(d, StartPlanningRound(checkpoint, "recovery"))
  <2> HIDE DEF checkpoint
  <2>1. "recovery" \in AnyKey BY DEF AnyKey
  <2>2. Allowed(checkpoint, StartPlanningRound(checkpoint, "recovery"))
    BY <1>3, <2>1, StartPlanningRoundAllowed
  <2>3. QED BY <1>3, <2>2, AllowedAfter DEF SameTurns
<1>7. Allowed(d, Res(d, place, FALSE)) BY SameIsSameTurns, QuietPlace
<1>8. may => Allowed(d, begun)
  <2> SUFFICES ASSUME may PROVE Allowed(d, begun) OBVIOUS
  <2>1. ~d.run.paused BY DEF MayBeginAutonomousTurn
  <2> HIDE DEF a, next
  <2>2. MayTake(d, next, a) BY <1>2, PlansFreely
  <2>3. QED BY <1>2, <2>1, <2>2, TurnAllowed
<1>9. \/ result \in {Refused(d), Nothing(checkpoint), Nothing(capRun),
                     StartPlanningReview(checkpoint), StartPlanningRound(checkpoint, "recovery"),
                     Res(d, place, FALSE)}
      \/ may /\ result = begun
  <2>1. result = IF ~(Settled(d, "lead") /\ Settled(d, "reviewer")) THEN Refused(d)
                 ELSE IF d.plan.msgs < 2
                 THEN IF v > 1 /\ d.plan.msgs = 1
                      THEN IF Autonomous /\ ~d.run.paused THEN StartPlanningReview(checkpoint)
                           ELSE Nothing(checkpoint)
                      ELSE Refused(d)
                 ELSE IF d.plan.submitted
                 THEN IF Claimed THEN Refused(d) ELSE Res(d, place, FALSE)
                 ELSE IF planningRoundLimitReached(d) THEN Nothing(capRun)
                 ELSE IF d.plan.msgs = 2
                 THEN IF Autonomous /\ ~d.run.paused
                      THEN StartPlanningRound(checkpoint, "recovery") ELSE Nothing(checkpoint)
                 ELSE IF ~Claimed /\ may THEN begun ELSE Refused(d)
    BY DEF RecoverIdlePlanning
  <2> HIDE DEF checkpoint, capRun, place, begun, may, result, v
  <2>2. QED BY <2>1
<1> HIDE DEF result, begun, may, checkpoint, capRun, place
<1>10. Allowed(d, result) BY <1>4, <1>5, <1>6, <1>7, <1>8, <1>9, AllowedStill
<1>11. QED BY <1>10 DEF result

LEMMA AdvanceWaitingRunAllowed ==
    ASSUME NEW d, Ready(d)
    PROVE  Allowed(d, AdvanceWaitingRun(d))
<1> DEFINE result == AdvanceWaitingRun(d)
<1>1. CASE Deliverable(d) BY <1>1, AdvanceInterventionAllowed DEF AdvanceWaitingRun
<1>2. CASE ~Deliverable(d)
  <2>1. result \in {Nothing(d), Refused(d), StartImplementation(d), StartPlanningReview(d),
                    StartPlanningRound(d, "autonomy"), RecoverIdlePlanning(d)}
    BY <1>2 DEF AdvanceWaitingRun
  <2>2. "autonomy" \in AnyKey BY DEF AnyKey
  <2> HIDE DEF result
  <2>3. Allowed(d, result)
    BY <2>1, <2>2, AllowedStill, StartImplementationAllowed, StartPlanningReviewAllowed,
       StartPlanningRoundAllowed, RecoverIdlePlanningAllowed
  <2>4. QED BY <2>3 DEF result
<1>3. QED BY <1>1, <1>2

LEMMA RecoverActiveAllowed ==
    ASSUME NEW d, Ready(d), NEW r
    PROVE  Allowed(d, RecoverActive(d, r))
<1> DEFINE l == At("reattach", r, NoAttempt)
           taken == Res(d, l, FALSE)
<1>1. RecoverActive(d, r) \in {taken, Refused(d)} BY DEF RecoverActive
<1>2. Allowed(d, taken) BY SameIsSameTurns, QuietPlace
<1> HIDE DEF taken
<1>3. QED BY <1>1, <1>2, AllowedStill

LEMMA RecoverAllowed ==
    ASSUME NEW d, Ready(d)
    PROVE  Allowed(d, Recover(d))
<1> DEFINE result == Recover(d)
           rested == waitRun(d, "phase_checkpoint")
           r == CHOOSE x \in Roles : x \in Active(d)
<1>1. Ready(rested) /\ SameTurns(d, rested) BY WaitReady DEF WaitKinds
<1>2. Allowed(d, Nothing(rested)) BY <1>1, AllowedHere
<1>3. Deliverable(d) => Allowed(d, AdvanceIntervention(d)) BY AdvanceInterventionAllowed
<1>4. Deliverable(rested) => Allowed(d, AdvanceIntervention(rested))
  <2> HIDE DEF rested
  <2>1. Deliverable(rested) => Allowed(rested, AdvanceIntervention(rested))
    BY <1>1, AdvanceInterventionAllowed
  <2>2. QED BY <1>1, <2>1, AllowedAfter DEF SameTurns
<1>5. /\ Allowed(d, AdvanceWaitingRun(d)) /\ Allowed(d, RecoverIdlePlanning(d))
      /\ Allowed(d, RecoverActive(d, "lead")) /\ Allowed(d, RecoverActive(d, r))
  BY AdvanceWaitingRunAllowed, RecoverIdlePlanningAllowed, RecoverActiveAllowed
<1>6. \/ result \in {Nothing(d), Refused(d), Nothing(rested), AdvanceWaitingRun(d),
                     RecoverIdlePlanning(d), RecoverActive(d, "lead"), RecoverActive(d, r)}
      \/ Deliverable(d) /\ result = AdvanceIntervention(d)
      \/ Deliverable(rested) /\ result = AdvanceIntervention(rested)
  <2> HIDE DEF r
  <2>1. QED BY DEF Recover, Deliverable, r
<1> HIDE DEF result, rested, r
<1>7. Allowed(d, result) BY <1>2, <1>3, <1>4, <1>5, <1>6, AllowedStill
<1>8. QED BY <1>7 DEF result

-----------------------------------------------------------------------------
(* What follows a turn.                                                    *)

\* Nobody has another turn yet.
Speaks(d, res) == Allowed(d, res) /\ res.d.att = d.att

LEMMA SpeaksPlace ==
    ASSUME NEW d, Ready(d), NEW e, SameTurns(d, e), NEW l,
           l.pc \in {"chain", "implement"} => MayTake(d, l.role, l.next), NEW err
    PROVE  Speaks(d, Res(e, l, err))
<1>1. Res(e, l, err).d = e BY DEF Res
<1>2. QED BY <1>1, AllowedPlace DEF Speaks, SameTurns

LEMMA SpeaksAway ==
    ASSUME NEW d, Ready(d), NEW kind \in WaitKinds, NEW r, NEW err
    PROVE  Speaks(d, Res(waitRun(d, kind), At("release", r, NoAttempt), err))
<1>1. SameTurns(d, waitRun(d, kind)) BY WaitReady
<1>2. At("release", r, NoAttempt).pc = "release" BY DEF At
<1>3. QED BY <1>1, <1>2, SpeaksPlace

LEMMA SpeaksAfter ==
    ASSUME NEW d, NEW e, e.plan.subs = d.plan.subs, e.att = d.att, NEW res, Speaks(e, res)
    PROVE  Speaks(d, res)
BY AllowedAfter DEF Speaks

LEMMA NextSpeakerAllowed ==
    ASSUME NEW d, Ready(d)
    PROVE  Speaks(d, NextSpeaker(d))
<1> DEFINE v == d.run.version
           a == At("chain", "reviewer", Attempt("planning", v, ReviewerMessages(d) + 1))
           b == At("chain", "lead", Attempt("planning", v, LeadMessages(d) + 1))
           rest == Res(waitRun(d, "phase_checkpoint"), At("release", "lead", NoAttempt), FALSE)
           capped == Res(waitRun(d, "round_cap"), At("release", "lead", NoAttempt), FALSE)
<1>1. Speaks(d, rest) /\ Speaks(d, capped) BY SpeaksAway DEF WaitKinds
<1>2. a.next.kind = "planning" /\ b.next.kind = "planning" BY DEF At, Attempt
<1>3. NextSpeaker(d) \in {rest, capped, Res(d, a, FALSE), Res(d, b, FALSE)} BY DEF NextSpeaker
<1> HIDE DEF a, b, rest, capped
<1>4. MayTake(d, a.role, a.next) /\ MayTake(d, b.role, b.next) BY <1>2, PlansFreely
<1>5. Speaks(d, Res(d, a, FALSE)) /\ Speaks(d, Res(d, b, FALSE))
  BY <1>4, SameIsSameTurns, SpeaksPlace
<1>6. QED BY <1>1, <1>3, <1>5

\* The submission is published that the reviewer was heard to approve.
LEMMA PublishedIsApproved ==
    ASSUME NEW d, Ready(d), d.att["reviewer"].kind = "approval",
           d.att["reviewer"].v = d.run.version, d.att["reviewer"].n = d.plan.subs,
           outcome["reviewer"] = "completed"
    PROVE  Approved(d.run.version, d.plan.subs)
<1> DEFINE a == d.att["reviewer"]
<1>1. a \in AttemptType BY RowFields DEF Ready, Roles
<1>2. a.t = 0 BY DEF Ready, Lawful, MayTake, Roles
<1>3. a = Attempt("approval", d.run.version, d.plan.subs)
  BY <1>1, <1>2 DEF AttemptType, Attempt
<1>4. [att |-> a, out |-> "completed"] \in known BY DEF Ready, Judged
<1>5. QED BY <1>3, <1>4 DEF Approved

LEMMA ContinueSubmittedPlanAllowed ==
    ASSUME NEW d, Ready(d)
    PROVE  Speaks(d, ContinueSubmittedPlan(d))
<1> DEFINE approval == Attempt("approval", d.run.version, d.plan.subs)
           asked == /\ d.att["reviewer"].kind = "approval" /\ d.att["reviewer"].v = d.run.version
                    /\ d.att["reviewer"].n = d.plan.subs
           published == [d EXCEPT !.plan = [d.plan EXCEPT !.published = TRUE]]
           returned == [d EXCEPT !.plan = [d.plan EXCEPT !.msgs = d.plan.msgs + 1, !.submitted = FALSE]]
           away == At("release", "lead", NoAttempt)
           rest == Res(waitRun(d, "phase_checkpoint"), away, FALSE)
           blocked == Res(waitRun(d, "blocker"), away, TRUE)
           shown == Res(waitRun(published, "phase_checkpoint"), away, FALSE)
           l == At("chain", "reviewer", approval)
<1>1. RowsOK(d) /\ d \in RowType /\ d.plan \in PlanType BY RowFields DEF Ready, RowsOK
<1>2. Speaks(d, rest) /\ Speaks(d, blocked) BY SpeaksAway DEF WaitKinds
<1>3. asked /\ outcome["reviewer"] = "completed" => Speaks(d, shown)
  <2> SUFFICES ASSUME asked, outcome["reviewer"] = "completed" PROVE Speaks(d, shown) OBVIOUS
  <2>1. Approved(d.run.version, d.plan.subs) BY PublishedIsApproved
  <2> DEFINE plan == [d.plan EXCEPT !.published = TRUE]
  <2>2. plan \in PlanType /\ plan.subs = d.plan.subs BY <1>1 DEF PlanType
  <2> HIDE DEF plan
  <2>3. Alike(d, published) /\ published.plan = plan BY <1>1, <2>2, PlanMoves DEF RowType, plan
  <2> HIDE DEF published
  <2>4. RowsOK(published) /\ published.att = d.att /\ published.run.version = d.run.version
        /\ published.plan.subs = d.plan.subs
    BY <2>2, <2>3 DEF Alike
  <2>5. Ready(published)
    BY <2>1, <2>4 DEF Ready, Lawful, MayTake, Judged, Starts
  <2>6. Speaks(published, shown) BY <2>5, SpeaksAway DEF WaitKinds
  <2> HIDE DEF shown
  <2>7. QED BY <2>4, <2>6, SpeaksAfter
<1>4. Speaks(d, NextSpeaker(returned))
  <2> DEFINE n == d.plan.msgs + 1
             plan == [d.plan EXCEPT !.msgs = n, !.submitted = FALSE]
  <2>1. n \in Nat BY <1>1 DEF PlanType
  <2>2. returned = [d EXCEPT !.plan = plan] OBVIOUS
  <2> HIDE DEF n
  <2>3. plan \in PlanType /\ plan.subs = d.plan.subs /\ plan.published = d.plan.published
    BY <1>1, <2>1 DEF PlanType
  <2> HIDE DEF plan, returned
  <2>4. Alike(d, returned) /\ returned.plan = plan BY <1>1, <2>2, <2>3, PlanMoves DEF RowType
  <2>5. SameTurns(d, returned) /\ RowsOK(returned) BY <2>3, <2>4 DEF SameTurns, Alike
  <2>6. Ready(returned) BY <2>5, SameReady
  <2>7. Speaks(returned, NextSpeaker(returned)) BY <2>6, NextSpeakerAllowed
  <2>8. QED BY <2>5, <2>7, SpeaksAfter DEF SameTurns
<1>5. Speaks(d, Res(d, l, FALSE))
  <2>1. l.role = "reviewer" /\ l.next.kind = "approval" /\ l.next.t = 0 BY DEF At, Attempt
  <2> HIDE DEF l
  <2>2. MayTake(d, l.role, l.next) BY <2>1 DEF MayTake
  <2>3. QED BY <2>2, SameIsSameTurns, SpeaksPlace
<1>6. \/ ContinueSubmittedPlan(d) \in {rest, blocked, NextSpeaker(returned), Res(d, l, FALSE)}
      \/ asked /\ outcome["reviewer"] = "completed" /\ ContinueSubmittedPlan(d) = shown
  <2>1. published = [d EXCEPT !.plan.published = TRUE] BY <1>1 DEF RowType
  <2>2. ContinueSubmittedPlan(d)
          = CASE d.plan.published -> rest
              [] ~d.plan.published /\ asked /\ outcome["reviewer"] = "completed" -> shown
              [] ~d.plan.published /\ asked /\ outcome["reviewer"] = "changes" -> NextSpeaker(returned)
              [] ~d.plan.published /\ ~asked /\ d.run.paused -> rest
              [] ~d.plan.published /\ ~asked /\ ~d.run.paused /\ Settled(d, "reviewer") -> Res(d, l, FALSE)
              [] OTHER -> blocked
    BY <2>1 DEF ContinueSubmittedPlan
  <2> HIDE DEF asked, rest, blocked, shown, returned, published, l
  <2>3. QED BY <2>2
<1> HIDE DEF asked, rest, blocked, shown, returned, published, l
<1>7. QED BY <1>2, <1>3, <1>4, <1>5, <1>6

\* A message joins the discussion; only a lead who answers may submit with it.
LEMMA MessageReady ==
    ASSUME NEW d, Ready(d), live.pc = "turn", NEW r \in Roles, NEW submits \in BOOLEAN,
           submits => d.att["lead"].kind = "planning"
    PROVE  LET e == LinkPlanningMessage(d, r, submits) IN
           /\ Ready(e) /\ e.att = d.att
           /\ e.plan.subs = d.plan.subs \/ d.att["lead"].kind = "planning"
<1> DEFINE e == LinkPlanningMessage(d, r, submits)
           place == IF r = "lead" THEN 2 * d.att[r].n - 1 ELSE 2 * d.att[r].n
           subs == IF submits THEN d.plan.subs + 1 ELSE d.plan.subs
           plan == [d.plan EXCEPT !.msgs = place, !.submitted = submits, !.published = FALSE,
                                  !.subs = subs]
<1>1. RowsOK(d) /\ d \in RowType /\ d.plan \in PlanType BY RowFields DEF Ready, RowsOK
<1>2. Alike(d, e) BY <1>1, MessageLinked
<1>3. e = d \/ e = [d EXCEPT !.plan = plan] BY DEF LinkPlanningMessage
<1>4. CASE e = d BY <1>4
<1>5. CASE e = [d EXCEPT !.plan = plan]
  <2>1. plan.published = FALSE /\ plan.subs = subs BY <1>1 DEF PlanType
  <2> HIDE DEF plan
  <2>2. e.plan = plan BY <1>1, <1>5 DEF RowType
  <2> HIDE DEF e, place
  <2>3. e.plan.subs = d.plan.subs \/ d.att["lead"].kind = "planning" BY <2>1, <2>2
  <2>4. ASSUME NEW x \in Roles PROVE MayTake(e, x, d.att[x])
    <3>1. MayTake(d, x, d.att[x]) BY DEF Ready, Lawful
    <3>2. CASE e.plan.subs = d.plan.subs BY <3>1, <3>2, MayTakeStill
    <3>3. CASE d.att["lead"].kind = "planning" BY <3>1, <3>3 DEF MayTake
    <3>4. QED BY <2>3, <3>2, <3>3
  <2>5. RowsOK(e) /\ e.att = d.att BY <1>2 DEF Alike
  <2>6. Ready(e)
    BY <2>1, <2>2, <2>4, <2>5 DEF Ready, Lawful, Judged, Starts
  <2>7. QED BY <2>3, <2>5, <2>6 DEF e
<1>6. QED BY <1>3, <1>4, <1>5

LEMMA FinishedAllowed ==
    ASSUME NEW d0, Ready(d0), live.pc = "turn", NEW r \in Roles, NEW submits \in BOOLEAN,
           submits => planningStageForAttempt(r, d0.att[r]) = "lead_response"
    PROVE  Allowed(d0, Finished(d0, r, submits))
<1> DEFINE stage == planningStageForAttempt(r, d0.att[r])
           said == LinkPlanningMessage(d0, r, submits)
           linked == IF stage \in {"none", "approval"} THEN d0 ELSE said
           d == TransitionSession(linked, r, "waiting")
           rest == Res(waitRun(d, "phase_checkpoint"), At("release", r, NoAttempt), FALSE)
<1>1. stage = "lead_response" => d0.att["lead"].kind = "planning"
  BY DEF planningStageForAttempt
<1>2. /\ Ready(linked) /\ linked.att = d0.att
      /\ linked.plan.subs = d0.plan.subs \/ d0.att["lead"].kind = "planning"
  <2>1. /\ Ready(said) /\ said.att = d0.att
        /\ said.plan.subs = d0.plan.subs \/ d0.att["lead"].kind = "planning"
    BY <1>1, MessageReady
  <2> HIDE DEF said, stage
  <2>2. QED BY <2>1
<1> HIDE DEF linked
<1>3. Ready(d) /\ SameTurns(linked, d) BY <1>2, SessionReady DEF SessionStatuses
<1> HIDE DEF d
<1>4. Speaks(d, ContinueSubmittedPlan(d)) /\ Speaks(d, NextSpeaker(d)) /\ Speaks(d, rest)
  BY <1>3, ContinueSubmittedPlanAllowed, NextSpeakerAllowed, SpeaksAway DEF WaitKinds
<1>5. Finished(d0, r, submits) \in {ContinueSubmittedPlan(d), NextSpeaker(d), rest}
  <2>1. Finished(d0, r, submits)
          = CASE stage = "approval" \/ (stage = "lead_response" /\ d.plan.submitted) -> ContinueSubmittedPlan(d)
              [] stage = "lead_response" /\ ~d.plan.submitted -> NextSpeaker(d)
              [] stage = "reviewer_response" -> NextSpeaker(d)
              [] OTHER -> rest
    BY DEF Finished, linked, said, d
  <2> HIDE DEF rest, stage
  <2>2. QED BY <2>1
<1> HIDE DEF rest
<1>6. PICK res : res = Finished(d0, r, submits) /\ Speaks(d, res) BY <1>4, <1>5
<1>7. Allowed(d0, res)
  BY <1>2, <1>3, <1>6 DEF Speaks, Allowed, SameTurns
<1>8. QED BY <1>6, <1>7

\* A turn that is held for the user.
LEMMA HeldAllowed ==
    ASSUME NEW d, Ready(d), NEW r \in Roles, NEW err
    PROVE  /\ Allowed(d, Res(RequireReview(d, r), At("release", r, NoAttempt), err))
           /\ Allowed(d, Res(PauseFailedTurn(d, r), At("release", r, NoAttempt), err))
<1> DEFINE held == WithStatus(d, r, "pause_requested")
           named == TransitionSession(d, r, "pause_requested")
<1>1. Ready(held) /\ SameTurns(d, held) /\ Ready(named) /\ SameTurns(d, named)
  BY SessionReady DEF SessionStatuses
<1>2. RequireReview(d, r) \in {waitRun(held, "blocker"), waitRun(d, "blocker")}
  BY DEF RequireReview
<1>3. PauseFailedTurn(d, r) \in {waitRun(held, "blocker"), waitRun(named, "blocker"), waitRun(d, "blocker")}
  BY DEF PauseFailedTurn, TransitionSession
<1> HIDE DEF held, named
<1>4. ASSUME NEW e, Ready(e), SameTurns(d, e) PROVE SameTurns(d, waitRun(e, "blocker"))
  BY <1>4, WaitReady DEF SameTurns, WaitKinds
<1>5. SameTurns(d, RequireReview(d, r)) /\ SameTurns(d, PauseFailedTurn(d, r))
  BY <1>1, <1>2, <1>3, <1>4, SameIsSameTurns
<1>6. QED BY <1>5, QuietPlace

-----------------------------------------------------------------------------
(* Steps.                                                                  *)

LEMMA AInvReady ==
    ASSUME IInv, AInv
    PROVE  Ready(db)
BY Invariant DEF AInv, Ready

\* What Apply writes is as lawful as the result it applies.
LEMMA ApplyStep ==
    ASSUME IInv, IInv', AInv, NEW res, Allowed(db, res), Apply(res), known' = known
    PROVE  AInv'
<1> DEFINE work == [r \in Roles |-> IF res.d.att[r].kind = "intervention" THEN db.work[r]
                                    ELSE res.d.att[r]]
           a == res.d.att["reviewer"]
<1>1. live' = res.l /\ db' = [res.d EXCEPT !.work = work] BY DEF Apply
<1>2. db' \in RowType BY DEF IInv, Sound, RowsOK
<1> HIDE DEF work
<1>3. /\ db'.plan = res.d.plan /\ db'.att = res.d.att /\ db'.run = res.d.run /\ db'.work = work
  BY <1>1, <1>2 DEF RowType
<1>4. Lawful(db)'
  BY <1>3 DEF Allowed, Lawful, MayTake, Approved
<1>5. Starts(db, live)'
  BY <1>1, <1>3 DEF Allowed, Starts, MayTake, Approved
<1>6. Judged(db)'
  <2>1. SUFFICES ASSUME a.kind = "approval", outcome'["reviewer"] = "completed"
                 PROVE  [att |-> a, out |-> "completed"] \in known
    BY <1>3 DEF Judged
  <2>2. "reviewer" \in Roles BY DEF Roles
  <2>3. CASE a = db.att["reviewer"]
    <3>1. outcome'["reviewer"] = outcome["reviewer"] BY <2>2, <2>3 DEF Apply
    <3>2. QED BY <2>1, <2>3, <3>1 DEF AInv, Judged
  <2>4. CASE a # db.att["reviewer"]
    <3> DEFINE c == CHOOSE k \in known : k.att = a
    <3>1. /\ \E k \in known : k.att = a
          /\ c.out = "completed"
      BY <2>1, <2>2, <2>4 DEF Apply
    <3>2. c \in known /\ c.att = a BY <3>1
    <3> HIDE DEF c
    <3>3. c \in [att : AttemptType, out : Outcomes] BY <3>2 DEF IInv, MemoryOK
    <3>4. c = [att |-> a, out |-> "completed"] BY <3>1, <3>2, <3>3
    <3>5. QED BY <3>2, <3>4
  <2>5. QED BY <2>3, <2>4
<1>7. (db.att["lead"].kind # "intervention" => db.work["lead"] = db.att["lead"])'
  BY <1>3 DEF work, Roles
<1>8. (db.work["lead"].kind = "implementation" => Approved(db.work["lead"].v, db.plan.subs))'
  <2>1. "lead" \in Roles BY DEF Roles
  <2>2. CASE res.d.att["lead"].kind = "intervention"
    <3>1. work["lead"] = db.work["lead"] BY <2>1, <2>2 DEF work
    <3>2. res.d.plan.subs = db.plan.subs BY <2>2 DEF Allowed
    <3>3. QED BY <1>3, <3>1, <3>2 DEF AInv, Approved
  <2>3. CASE res.d.att["lead"].kind # "intervention"
    <3>1. work["lead"] = res.d.att["lead"] BY <2>1, <2>3 DEF work
    <3>2. MayTake(res.d, "lead", res.d.att["lead"]) BY <2>1 DEF Allowed, Lawful
    <3>3. QED BY <1>3, <3>1, <3>2 DEF MayTake, Approved
  <2>4. QED BY <2>2, <2>3
<1>9. QED BY <1>4, <1>5, <1>6, <1>7, <1>8 DEF AInv

\* A transaction that leaves the turns alone.
LEMMA TurnsStand ==
    ASSUME AInv, SameTurns(db, db'), db'.work = db.work, known' = known, outcome' = outcome,
           live'.pc \in {"chain", "implement"} => live' = live
    PROVE  AInv'
<1>1. Lawful(db)' BY DEF AInv, SameTurns, Lawful, MayTake, Approved
<1>2. Judged(db)' BY DEF AInv, SameTurns, Judged
<1>3. Starts(db, live)' BY DEF AInv, SameTurns, Starts, MayTake, Approved
<1>4. QED BY <1>1, <1>2, <1>3 DEF AInv, SameTurns, Approved

\* A result whose failure blocks the run, and one that names its caller.
LEMMA BlockedAllowed ==
    ASSUME NEW d, NEW o \in BOOLEAN, NEW res, Good(d, res, o), Allowed(d, res)
    PROVE  Allowed(d, Blocking(res))
<1> DEFINE e == waitRun(res.d, "blocker")
<1>1. Blocking(res).l = res.l /\ Blocking(res).d = e BY GoodBlocked
<1>2. RowsOK(res.d) /\ res.d \in RowType BY DEF Good, Sound, RowsOK
<1>3. e.att = res.d.att /\ e.run.version = res.d.run.version
  BY <1>2, WaitRun DEF Beside, WaitKinds
<1>4. e.plan = res.d.plan BY <1>2 DEF waitRun, TransitionRun, RowType
<1> HIDE DEF e
<1>5. Lawful(e) BY <1>3, <1>4 DEF Allowed, Lawful, MayTake
<1>6. Starts(e, res.l) BY <1>4 DEF Allowed, Starts, MayTake
<1>7. QED BY <1>1, <1>3, <1>4, <1>5, <1>6 DEF Allowed

LEMMA KeyedAllowed ==
    ASSUME NEW d, NEW o, NEW res, Good(d, res, o), Allowed(d, res), NEW c
    PROVE  Allowed(d, Keyed(res, c))
<1> DEFINE l == [res.l EXCEPT !.key = c]
<1>1. res \in ResType /\ res.l \in PlaceType BY DEF Good, ResType
<1>2. l.pc = res.l.pc /\ l.role = res.l.role /\ l.next = res.l.next BY <1>1 DEF PlaceType
<1>3. Keyed(res, c) = [res EXCEPT !.l = l] BY <1>1 DEF Keyed, ResType
<1> HIDE DEF l
<1>4. [res EXCEPT !.l = l].d = res.d /\ [res EXCEPT !.l = l].l = l BY <1>1 DEF ResType
<1>5. Starts(res.d, l) BY <1>2 DEF Allowed, Starts
<1>6. QED BY <1>3, <1>4, <1>5 DEF Allowed

-----------------------------------------------------------------------------
(* The steps of the goroutine.                                             *)

LEMMA FinishTurnApproves ==
    ASSUME IInv, IInv', AInv, NEW r \in Roles, FinishTurn(r)
    PROVE  AInv'
<1>1. live.pc = "turn" /\ known' = known BY DEF FinishTurn, others
<1>2. PICK submits \in BOOLEAN :
        /\ submits => planningStageForAttempt(r, db.att[r]) = "lead_response"
        /\ Apply(Finished(db, r, submits))
  BY DEF FinishTurn
<1>3. Allowed(db, Finished(db, r, submits)) BY <1>1, <1>2, AInvReady, FinishedAllowed
<1>4. QED BY <1>1, <1>2, <1>3, ApplyStep

LEMMA FinishInterventionApproves ==
    ASSUME IInv, IInv', AInv, NEW r \in Roles, FinishIntervention(r)
    PROVE  AInv'
<1> DEFINE i == Latest(db)
           l == At("release", r, NoAttempt)
<1>1. known' = known /\ db.att[r].kind = "intervention"
  BY DEF FinishIntervention, Intervening, others
<1>2. PICK effect \in Effects :
        IF MayCompleteIntervention(db, i, db.att[r])
        THEN Apply(Res(CompleteIntervention(db, i, effect), l, FALSE))
        ELSE Apply(Res(RequireReview(db, r), l, FALSE))
  BY DEF FinishIntervention
<1>3. CASE MayCompleteIntervention(db, i, db.att[r])
  <2> DEFINE e == CompleteIntervention(db, i, effect)
  <2>1. HasLatest(db) BY <1>1, Invariant DEF RowsOK
  <2>2. e.run = db.run /\ e.att = db.att BY <1>3, <2>1, Invariant, InterventionEnds
  <2>3. e.plan = db.plan BY Invariant DEF CompleteIntervention, RowsOK, RowType
  <2>4. Apply(Res(e, l, FALSE)) BY <1>2, <1>3
  <2> HIDE DEF e
  <2>5. SameTurns(db, e) BY <2>2, <2>3 DEF SameTurns
  <2>6. Allowed(db, Res(e, l, FALSE)) BY <2>5, AInvReady, QuietPlace
  <2>7. QED BY <1>1, <2>4, <2>6, ApplyStep
<1>4. CASE ~MayCompleteIntervention(db, i, db.att[r])
  <2>1. Apply(Res(RequireReview(db, r), l, FALSE)) BY <1>2, <1>4
  <2>2. Allowed(db, Res(RequireReview(db, r), l, FALSE)) BY AInvReady, HeldAllowed
  <2>3. QED BY <1>1, <2>1, <2>2, ApplyStep
<1>5. QED BY <1>3, <1>4

LEMMA FinishBadlyApproves ==
    ASSUME IInv, IInv', AInv, NEW r \in Roles, FinishBadly(r)
    PROVE  AInv'
<1> DEFINE l == At("release", r, NoAttempt)
           rested == MoveSession(db, r, "stopped")
           e == TransitionRun(rested, "stopped", "none")
<1>1. known' = known BY DEF FinishBadly, others
<1>2. /\ Allowed(db, Res(RequireReview(db, r), l, FALSE))
      /\ Allowed(db, Res(PauseFailedTurn(db, r), l, FALSE))
  BY AInvReady, HeldAllowed
<1>3. Allowed(db, Res(e, l, FALSE))
  <2>1. Ready(rested) /\ SameTurns(db, rested)
    BY AInvReady, SessionReady DEF MoveSession, SessionStatuses, SessionEnds
  <2>2. RowsOK(rested) BY <2>1 DEF Ready
  <2> HIDE DEF rested
  <2>3. Beside(rested, e) /\ e.run.version = rested.run.version BY <2>2, RunStops
  <2>4. e.plan = rested.plan BY <2>2, RunMovesPlan
  <2> HIDE DEF e
  <2>5. SameTurns(db, e) BY <2>1, <2>3, <2>4 DEF SameTurns, Beside
  <2>6. QED BY <2>5, AInvReady, QuietPlace
<1>4. \/ Apply(Res(RequireReview(db, r), l, FALSE))
      \/ Apply(Res(PauseFailedTurn(db, r), l, FALSE))
      \/ Apply(Res(e, l, FALSE))
  BY DEF FinishBadly
<1> HIDE DEF e, l
<1>5. QED BY <1>1, <1>2, <1>3, <1>4, ApplyStep

LEMMA ChainApproves ==
    ASSUME IInv, IInv', AInv, Chain
    PROVE  AInv'
<1> DEFINE r == live.role
           a == live.next
           may == MayBeginAutonomousTurn(db, r, db.att[r], "planning", TRUE, FALSE)
           begun == Begun(db, r, a)
           blocked == Res(waitRun(db, "blocker"), At("release", r, NoAttempt), TRUE)
<1>1. live.pc = "chain" /\ known' = known BY DEF Chain, others
<1>2. r \in Roles BY <1>1, OnNobody
<1>3. CASE may
  <2>1. ~db.run.paused BY <1>3 DEF MayBeginAutonomousTurn
  <2>2. a \in AttemptType /\ a.kind \in {"planning", "approval"}
    BY <1>1, Invariant DEF RightPlace, PlaceType
  <2>3. MayTake(db, r, a) BY <1>1 DEF AInv, Starts
  <2>4. Allowed(db, begun) BY <1>2, <2>1, <2>2, <2>3, AInvReady, TurnAllowed
  <2>5. Apply(begun) BY <1>3 DEF Chain
  <2>6. QED BY <1>1, <2>4, <2>5, ApplyStep
<1>4. CASE ~may
  <2>1. SameTurns(db, waitRun(db, "blocker")) BY AInvReady, WaitReady DEF WaitKinds
  <2>2. Allowed(db, blocked) BY <2>1, AInvReady, QuietPlace
  <2>3. Apply(blocked) BY <1>4 DEF Chain
  <2>4. QED BY <1>1, <2>2, <2>3, ApplyStep
<1>5. QED BY <1>3, <1>4

LEMMA PublishApproves ==
    ASSUME IInv, IInv', AInv, Publish
    PROVE  AInv'
<1>1. known' = known /\ Apply(ContinueSubmittedPlan(db)) BY DEF Publish, others
<1>2. Allowed(db, ContinueSubmittedPlan(db))
  BY AInvReady, ContinueSubmittedPlanAllowed DEF Speaks
<1>3. QED BY <1>1, <1>2, ApplyStep

\* The lead's first implementation turn is of the plan that was approved.
LEMMA ImplementApproves ==
    ASSUME IInv, IInv', AInv, Implement
    PROVE  AInv'
<1> DEFINE a == live.next
           may == MayBeginAutonomousTurn(db, "lead", db.att["lead"], "implementing", FALSE, FALSE)
           begun == Begun(db, "lead", a)
           e == IF live.key = "turn" THEN waitRun(db, "blocker") ELSE db
           away == Res(e, Idle, TRUE)
<1>1. live.pc = "implement" /\ known' = known BY DEF Implement
<1>2. "lead" \in Roles BY DEF Roles
<1>3. CASE may
  <2>1. ~db.run.paused BY <1>3 DEF MayBeginAutonomousTurn
  <2>2. a \in AttemptType /\ a.kind = "implementation"
    BY <1>1, Invariant DEF RightPlace, PlaceType
  <2>3. MayTake(db, live.role, a) BY <1>1 DEF AInv, Starts
  <2>4. MayTake(db, "lead", a) BY <2>2, <2>3 DEF MayTake
  <2>5. Allowed(db, begun) BY <1>2, <2>1, <2>2, <2>4, AInvReady, TurnAllowed
  <2>6. Apply(begun) BY <1>3 DEF Implement
  <2>7. QED BY <1>1, <2>5, <2>6, ApplyStep
<1>4. CASE ~may
  <2>1. SameTurns(db, e) BY AInvReady, WaitReady, SameIsSameTurns DEF WaitKinds
  <2>2. Apply(away) BY <1>4 DEF Implement
  <2> HIDE DEF e
  <2>3. Idle.pc = "idle" BY DEF Idle
  <2>4. Allowed(db, away) BY <2>1, <2>3, AInvReady, AllowedPlace
  <2> HIDE DEF away
  <2>5. QED BY <1>1, <2>2, <2>4, ApplyStep
<1>5. QED BY <1>3, <1>4

\* The turn that takes over a failed one has the same subject.
LEMMA ReattachApproves ==
    ASSUME IInv, IInv', AInv, Reattach
    PROVE  AInv'
<1> DEFINE r == live.role
           a == db.att[r]
           next == recoverySuccessorAttemptID(a)
           rested == TransitionSession(db, r, "waiting")
           may == /\ db.sess[r].status \in {"running", "pause_requested", "waiting"} /\ HasSuccessor(a)
                  /\ MayBeginAutonomousTurn(rested, r, a, db.feature, TRUE, FALSE)
           begun == Begun(rested, r, next)
           left == At("release", r, NoAttempt)
           l == At("turn", r, NoAttempt)
<1>1. live.pc = "reattach" /\ known' = known BY DEF Reattach, others
<1>2. r \in Roles BY <1>1, OnTheTurn
<1>3. Ready(rested) /\ SameTurns(db, rested)
  BY <1>2, AInvReady, SessionReady DEF SessionStatuses
<1>4. CASE outcome[r] \in {"failed", "lost"} /\ may
  <2>1. ~rested.run.paused BY <1>4 DEF MayBeginAutonomousTurn
  <2>2. a \in AttemptType BY <1>2, RowFields, Invariant
  <2>3. a.kind \in {"planning", "approval", "implementation"} BY <1>4 DEF HasSuccessor
  <2>4. /\ next \in AttemptType /\ next.kind = a.kind /\ next.v = a.v
        /\ a.kind # "planning" => next.t = a.t
    BY <2>2, <2>3 DEF recoverySuccessorAttemptID, AttemptType
  <2>5. MayTake(db, r, a) BY <1>2 DEF AInv, Lawful
  <2> HIDE DEF next
  <2>6. MayTake(db, r, next) BY <2>4, <2>5 DEF MayTake
  <2>7. MayTake(rested, r, next) BY <1>3, <2>6, MayTakeStill DEF SameTurns
  <2>8. next.kind # "intervention" BY <2>3, <2>4
  <2>9. Apply(begun) BY <1>4 DEF Reattach, next
  <2> HIDE DEF rested
  <2>10. Allowed(rested, begun) BY <1>2, <1>3, <2>1, <2>4, <2>7, <2>8, TurnAllowed
  <2> HIDE DEF begun
  <2>11. Allowed(db, begun) BY <1>3, <2>10, AllowedAfter DEF SameTurns
  <2>12. QED BY <1>1, <2>9, <2>11, ApplyStep
<1>5. CASE outcome[r] \in {"failed", "lost"} /\ ~may
  <2> DEFINE m == IF db.sess[r].status = "starting" THEN db ELSE rested
             res == Res(RequireReview(m, r), left, TRUE)
  <2>1. Apply(res) BY <1>5 DEF Reattach
  <2>2. Ready(m) /\ m.plan.subs = db.plan.subs BY <1>3, AInvReady DEF SameTurns
  <2> HIDE DEF m
  <2>3. Allowed(m, res) BY <1>2, <2>2, HeldAllowed
  <2> HIDE DEF res
  <2>4. Allowed(db, res) BY <2>2, <2>3, AllowedAfter
  <2>5. QED BY <1>1, <2>1, <2>4, ApplyStep
<1>6. CASE outcome[r] \notin {"failed", "lost"}
  <2>1. Apply(Res(db, l, FALSE)) BY <1>6 DEF Reattach
  <2>2. Allowed(db, Res(db, l, FALSE)) BY AInvReady, SameIsSameTurns, QuietPlace
  <2>3. QED BY <1>1, <2>1, <2>2, ApplyStep
<1>7. QED BY <1>4, <1>5, <1>6

\* The lead plans again: nothing of the new version is submitted or published.
LEMMA ReplanApproves ==
    ASSUME IInv, IInv', AInv, Replan
    PROVE  AInv'
<1> DEFINE a == live.next
           e == Replanned(db, live.key, a)
           l == At("turn", "lead", NoAttempt)
           begun == Res(e, l, FALSE)
           may == MayBeginReplanning(db, live.key, Latest(db), db.run.version + 1, db.att["lead"])
<1>1. live.pc = "replan" /\ known' = known BY DEF Replan
<1>2. CASE may
  <2>1. Apply(begun) BY <1>2 DEF Replan, Replanned
  <2>2. /\ HasLatest(db) /\ a \in AttemptType /\ a.kind = "planning" /\ live.key \in AnyKey
    BY <1>1, Invariant DEF RightPlace, PlaceType
  <2>3. RowsOK(e) /\ e.att = [db.att EXCEPT !["lead"] = a]
    BY <1>2, <2>2, Invariant, ReplanningBegins
  <2>4. e.plan = NoPlan BY Invariant DEF Replanned, BeginReplanningTurn, RowsOK, RowType
  <2>5. begun.d = e /\ begun.l = l /\ l.pc = "turn" BY DEF Res, At
  <2>6. db.att \in [Roles -> AttemptType] BY Invariant, RowFields
  <2> HIDE DEF e, l, begun
  <2>7. /\ e.att["lead"].kind = "planning"
        /\ \A r \in Roles : r # "lead" => e.att[r] = db.att[r]
    BY <2>2, <2>3, <2>6 DEF Roles
  <2>8. ASSUME NEW r \in Roles PROVE MayTake(e, r, e.att[r])
    <3>1. CASE r = "lead" BY <2>7, <3>1, PlansFreely
    <3>2. CASE r # "lead"
      <4>1. MayTake(db, r, db.att[r]) BY DEF AInv, Lawful
      <4>2. QED BY <2>7, <3>2, <4>1 DEF MayTake
    <3>3. QED BY <3>1, <3>2
  <2>9. Lawful(e) BY <2>4, <2>8 DEF Lawful, NoPlan
  <2>10. Allowed(db, begun) BY <2>5, <2>7, <2>9 DEF Allowed, Starts
  <2>11. QED BY <1>1, <2>1, <2>10, ApplyStep
<1>3. CASE ~may
  <2> DEFINE away == Res(db, Idle, TRUE)
  <2>1. Apply(away) BY <1>3 DEF Replan
  <2>2. Idle.pc = "idle" BY DEF Idle
  <2>3. Allowed(db, away) BY <2>2, AInvReady, SameIsSameTurns, AllowedPlace
  <2> HIDE DEF away
  <2>4. QED BY <1>1, <2>1, <2>3, ApplyStep
<1>4. QED BY <1>2, <1>3

-----------------------------------------------------------------------------
(* The handlers, the user's requests and the restarts.                     *)

LEMMA AdvanceApproves ==
    ASSUME IInv, IInv', AInv, NEW c \in Callers, Advance(c)
    PROVE  AInv'
<1> DEFINE res == IF c = "queue"
                  THEN IF Deliverable(db) THEN AdvanceIntervention(db) ELSE Nothing(db)
                  ELSE AdvanceWaitingRun(db)
<1>1. known' = known BY DEF Advance
<1>2. \/ Apply(Blocking(res))
      \/ Apply(Keyed(res, c))
      \/ Apply(res)
  BY DEF Advance, Blocking, Keyed
<1>3. Good(db, res, overrun)
  <2>1. Good(db, AdvanceWaitingRun(db), overrun) BY Invariant, AdvanceWaitingRunGood
  <2>2. Good(db, Nothing(db), overrun) BY Invariant, GoodStill
  <2>3. Deliverable(db) => Good(db, AdvanceIntervention(db), overrun)
    BY Invariant, AdvanceInterventionGood
  <2>4. QED BY <2>1, <2>2, <2>3
<1>4. Allowed(db, res)
  BY AInvReady, AdvanceWaitingRunAllowed, AdvanceInterventionAllowed, AllowedStill
<1> HIDE DEF res
<1>5. Allowed(db, Blocking(res)) BY <1>3, <1>4, Invariant, BlockedAllowed
<1>6. Allowed(db, Keyed(res, c)) BY <1>3, <1>4, KeyedAllowed
<1>7. QED BY <1>1, <1>2, <1>4, <1>5, <1>6, ApplyStep

LEMMA RequestsApprove ==
    ASSUME IInv, IInv', AInv,
           \/ StartReviewRequest \/ StartImplementationRequest
           \/ \E k \in ResumeKeys : StartRoundRequest(k)
    PROVE  AInv'
<1>1. known' = known
  BY DEF StartReviewRequest, StartImplementationRequest, StartRoundRequest, others
<1>2. PICK res : Apply(res) /\ Allowed(db, res)
  <2>1. CASE StartReviewRequest
    BY <2>1, AInvReady, StartPlanningReviewAllowed DEF StartReviewRequest
  <2>2. CASE StartImplementationRequest
    BY <2>2, AInvReady, StartImplementationAllowed DEF StartImplementationRequest
  <2>3. CASE \E k \in ResumeKeys : StartRoundRequest(k)
    <3>1. PICK k \in ResumeKeys : Apply(StartPlanningRound(db, k))
      BY <2>3 DEF StartRoundRequest
    <3>2. k \in AnyKey BY DEF AnyKey
    <3>3. QED BY <3>1, <3>2, AInvReady, StartPlanningRoundAllowed
  <2>4. QED BY <2>1, <2>2, <2>3
<1>3. QED BY <1>1, <1>2, ApplyStep

\* A message to the lead goes on with the implementation at hand.
LEMMA SendCommandApproves ==
    ASSUME IInv, IInv', AInv, NEW c \in Replies, SendCommand(c)
    PROVE  AInv'
<1> DEFINE a == [db.work["lead"] EXCEPT !.n = @ + 1]
           res == Res(BeginWorkerTurn(db, c, "lead", a), At("turn", "lead", NoAttempt), FALSE)
<1>1. known' = known /\ ~db.run.paused /\ db.work["lead"].kind = "implementation"
  BY DEF SendCommand, MayBeginWorkerTurn, others
<1>2. db.work["lead"] \in AttemptType BY Invariant DEF RowsOK, RowType, Roles
<1>3. a \in AttemptType /\ a.kind = "implementation" /\ a.v = db.work["lead"].v
  BY <1>1, <1>2 DEF AttemptType
<1>4. Apply(res) BY DEF SendCommand
<1> HIDE DEF a
<1>5. MayTake(db, "lead", a) BY <1>1, <1>3 DEF AInv, MayTake
<1>6. Allowed(db, res) BY <1>1, <1>3, <1>5, AInvReady, TurnAllowed DEF Roles
<1> HIDE DEF res
<1>7. QED BY <1>1, <1>4, <1>6, ApplyStep

LEMMA FinishRecoveryApproves ==
    ASSUME IInv, IInv', AInv, FinishRecovery
    PROVE  AInv'
<1> DEFINE res == Recover(db)
<1>1. checking /\ known' = known BY DEF FinishRecovery
<1>2. ~Claimed /\ ~Ended(db) BY <1>1, MemoryKept DEF Claimed, Ended, RunEnds
<1>3. Good(db, res, overrun) BY <1>2, Invariant, RecoverGood
<1>4. Apply(Blocking(res)) \/ Apply(res) BY DEF FinishRecovery, Blocking
<1>5. Allowed(db, res) BY AInvReady, RecoverAllowed
<1> HIDE DEF res
<1>6. Allowed(db, Blocking(res)) BY <1>3, <1>5, Invariant, BlockedAllowed
<1>7. QED BY <1>1, <1>4, <1>5, <1>6, ApplyStep

LEMMA RestartApproves ==
    ASSUME IInv, IInv', AInv, Restart
    PROVE  AInv'
<1>1. known' = known BY DEF Restart
<1>2. CASE Recoverable(db, Autonomous)
  <2>1. Apply(Recover(db)) BY <1>2 DEF Restart
  <2>2. Allowed(db, Recover(db)) BY AInvReady, RecoverAllowed
  <2>3. QED BY <1>1, <2>1, <2>2, ApplyStep
<1>3. CASE ~Recoverable(db, Autonomous)
  <2>1. UNCHANGED <<db, outcome, live>> BY <1>3 DEF Restart
  <2>2. QED BY <1>1, <2>1, SameIsSameTurns, TurnsStand
<1>4. QED BY <1>2, <1>3

-----------------------------------------------------------------------------
(* The steps that begin no turn.                                           *)

\* The name of a conversation, and a message that reached its agent.
LEMMA SessionApproves ==
    ASSUME IInv, AInv,
           \/ \E r \in Roles : CaptureProviderSession(r)
           \/ \E c \in db.cmds : ApplyReply(c)
    PROVE  AInv'
<1>1. known' = known /\ outcome' = outcome /\ live' = live
  BY DEF CaptureProviderSession, ApplyReply, others
<1>2. db \in RowType BY Invariant DEF RowsOK
<1>3. SameTurns(db, db') /\ db'.work = db.work
  BY <1>2 DEF CaptureProviderSession, ApplyReply, TransitionSession, ResolveCommand, RowType, SameTurns
<1>4. QED BY <1>1, <1>3, TurnsStand

\* What the user asks of the run.
LEMMA PauseApproves ==
    ASSUME IInv, AInv, NEW k \in PauseKeys, Pause(k)
    PROVE  AInv'
<1>1. db' = ApplyPause(db, k) /\ known' = known /\ outcome' = outcome /\ live' = live
  BY DEF Pause, others
<1>2. db \in RowType BY Invariant DEF RowsOK
<1>3. Beside(db, db') /\ db'.run.version = db.run.version BY <1>1, Invariant, PauseFields
<1>4. db'.plan = db.plan /\ db'.work = db.work BY <1>1, <1>2 DEF ApplyPause, RowType
<1>5. SameTurns(db, db') BY <1>3, <1>4 DEF SameTurns, Beside
<1>6. QED BY <1>1, <1>4, <1>5, TurnsStand

LEMMA QueueGuidanceApproves ==
    ASSUME IInv, AInv, NEW g \in Guidance, NEW r \in Roles, QueueGuidance(g, r)
    PROVE  AInv'
<1>1. /\ MayQueueIntervention(db, g, r) /\ db' = QueueIntervention(db, g, r)
      /\ known' = known /\ outcome' = outcome /\ live' = live
  BY DEF QueueGuidance
<1>2. db \in RowType BY Invariant DEF RowsOK
<1>3. Beside(db, db') /\ db'.run.version = db.run.version
  BY <1>1, Invariant, InterventionQueues
<1>4. db'.plan = db.plan /\ db'.work = db.work BY <1>1, <1>2 DEF QueueIntervention, RowType
<1>5. SameTurns(db, db') BY <1>3, <1>4 DEF SameTurns, Beside
<1>6. QED BY <1>1, <1>4, <1>5, TurnsStand

LEMMA ActOnResumeApproves ==
    ASSUME IInv, AInv, NEW k \in ResumeKeys, ActOnResume(k)
    PROVE  AInv'
<1> DEFINE i == Latest(db)
<1>1. known' = known /\ outcome' = outcome /\ live' = live BY DEF ActOnResume
<1>2. db \in RowType BY Invariant DEF RowsOK
<1>3. SameTurns(db, db') /\ db'.work = db.work
  <2>1. CASE db' = ApplyResume(db, k)
    <3>1. Beside(db, db') /\ db'.run.version = db.run.version BY <2>1, Invariant, ResumeFields
    <3>2. db'.plan = db.plan /\ db'.work = db.work BY <1>2, <2>1 DEF ApplyResume, RowType
    <3>3. QED BY <3>1, <3>2 DEF SameTurns, Beside
  <2>2. CASE /\ resuming[k] = "guidance_applied" /\ MayResolveGuidance(db, k, i)
             /\ db' = ResolveInterventionGuidance(db, k, i)
    <3>1. HasLatest(db) BY <2>2, MemoryKept
    <3>2. db'.att = db.att /\ db'.run.version = db.run.version
      BY <2>2, <3>1, Invariant, GuidanceResolves
    <3>3. db'.plan = db.plan /\ db'.work = db.work
      BY <1>2, <2>2 DEF ResolveInterventionGuidance, RowType
    <3>4. QED BY <3>2, <3>3 DEF SameTurns
  <2>3. CASE db' = db BY <2>3, SameIsSameTurns
  <2>4. QED BY <2>1, <2>2, <2>3 DEF ActOnResume
<1>4. QED BY <1>1, <1>3, TurnsStand

\* The feature returns to planning; the lead's turn is still to begin.
LEMMA ResumeIntoReplanningApproves ==
    ASSUME IInv, AInv, NEW k \in ResumeKeys, ResumeIntoReplanning(k)
    PROVE  AInv'
<1> DEFINE l == [At("replan", "lead", Attempt("planning", db.run.version + 1, 1)) EXCEPT !.key = k]
<1>1. known' = known /\ outcome' = outcome BY DEF ResumeIntoReplanning
<1>2. db \in RowType BY Invariant DEF RowsOK
<1>3. \/ db' = db /\ live' = live
      \/ db' = [db EXCEPT !.feature = "planning"] /\ live' = l
  BY DEF ResumeIntoReplanning
<1>4. l.pc = "replan" BY DEF At
<1> HIDE DEF l
<1>5. SameTurns(db, db') /\ db'.work = db.work BY <1>2, <1>3 DEF RowType, SameTurns
<1>6. live'.pc \in {"chain", "implement"} => live' = live BY <1>3, <1>4
<1>7. QED BY <1>1, <1>5, <1>6, TurnsStand

LEMMA ContinueApproves ==
    ASSUME IInv, AInv, Continue
    PROVE  AInv'
<1>1. /\ ~db.run.paused /\ db' = TransitionRun(db, "running", "none")
      /\ known' = known /\ outcome' = outcome /\ live' = live
  BY DEF Continue
<1>2. db \in RowType BY Invariant DEF RowsOK
<1>3. Beside(db, db') /\ db'.run.version = db.run.version BY <1>1, Invariant, RunGoesOn
<1>4. db'.plan = db.plan /\ db'.work = db.work BY <1>1, <1>2 DEF TransitionRun, RowType
<1>5. SameTurns(db, db') BY <1>3, <1>4 DEF SameTurns, Beside
<1>6. QED BY <1>1, <1>4, <1>5, TurnsStand

\* A repeated request, what a resume reads, a run let go, and a stop.
LEMMA OthersApprove ==
    ASSUME AInv,
           \/ RepeatGuidance \/ (\E k \in ResumeKeys : ReadForResume(k))
           \/ Release \/ Crash \/ UNCHANGED vars
    PROVE  AInv'
<1>1. db' = db /\ known' = known /\ outcome' = outcome /\ (live' = live \/ live' = Idle)
  BY DEF RepeatGuidance, ReadForResume, Release, Crash, vars
<1>2. Idle.pc = "idle" BY DEF Idle
<1>3. live'.pc \in {"chain", "implement"} => live' = live BY <1>1, <1>2
<1>4. db'.work = db.work /\ SameTurns(db, db') BY <1>1, SameIsSameTurns
<1>5. QED BY <1>1, <1>3, <1>4, TurnsStand

\* The end of a turn is known; that of an approval, with what it said.
LEMMA EndTurnApproves ==
    ASSUME IInv, AInv, NEW r \in Roles, EndTurn(r)
    PROVE  AInv'
<1> DEFINE a == db.att["reviewer"]
           said == [att |-> a, out |-> "completed"]
<1>1. db' = db /\ live' = live /\ known \subseteq known' BY DEF EndTurn
<1>2. \A v, n : Approved(v, n) => Approved(v, n)' BY <1>1 DEF Approved
<1>3. Lawful(db)' BY <1>1, <1>2 DEF AInv, Lawful, MayTake
<1>4. Starts(db, live)' BY <1>1, <1>2 DEF AInv, Starts, MayTake
<1>5. Judged(db)'
  <2>1. SUFFICES ASSUME a.kind = "approval", outcome'["reviewer"] = "completed"
                 PROVE  said \in known'
    BY <1>1 DEF Judged
  <2>2. outcome \in [Roles -> Outcomes] BY DEF IInv, MemoryOK
  <2>3. CASE r = "reviewer" BY <2>1, <2>3 DEF EndTurn
  <2>4. CASE r # "reviewer"
    <3>1. outcome'["reviewer"] = outcome["reviewer"] BY <2>2, <2>4 DEF EndTurn, Roles
    <3>2. said \in known BY <2>1, <3>1 DEF AInv, Judged
    <3>3. QED BY <1>1, <3>2
  <2>5. QED BY <2>3, <2>4
<1>6. QED BY <1>1, <1>2, <1>3, <1>4, <1>5 DEF AInv

-----------------------------------------------------------------------------
(* The plan that is implemented.                                           *)

LEMMA InitApproves ==
    ASSUME Init
    PROVE  AInv
<1> DEFINE first == [kind |-> "planning", v |-> 1, n |-> 1, t |-> 0]
           none == [r \in Roles |-> NoAttempt]
           absent == [r \in Roles |-> [status |-> "absent", provider |-> FALSE]]
           turns == [none EXCEPT !["lead"] = first]
           start == CreateSession(CreateRun([feature |-> "planning", ivs |-> <<>>, acts |-> {}, cmds |-> {},
                                       revs |-> {}, plan |-> NoPlan, run |-> <<>>,
                                       att |-> none, work |-> none, sess |-> absent],
                                      RoundLimit), "lead")
<1>1. db = [start EXCEPT !.att["lead"] = first, !.work["lead"] = first] BY DEF Init
<1>2. db.plan = NoPlan /\ db.att = turns /\ db.work = turns
  <2> HIDE DEF none, absent, first
  <2>1. QED BY <1>1 DEF CreateSession, CreateRun, WithRun
<1>3. live.pc = "turn" BY DEF Init, At
<1>4. turns["lead"] = first /\ turns["reviewer"] = NoAttempt /\ \A r \in Roles : turns[r] \in {first, NoAttempt}
  BY DEF Roles
<1>5. \A a \in {first, NoAttempt} : a.kind \in {"planning", "none"} BY DEF NoAttempt
<1>6. first.kind = "planning" /\ NoAttempt.kind = "none" BY DEF NoAttempt
<1> HIDE DEF turns, first, start
<1>7. \A r \in Roles : MayTake(db, r, db.att[r]) BY <1>2, <1>4, <1>5, PlansFreely
<1>8. Lawful(db) BY <1>2, <1>7 DEF Lawful, NoPlan
<1>9. Judged(db) BY <1>2, <1>4, <1>6 DEF Judged
<1>10. Starts(db, live) BY <1>3 DEF Starts
<1>11. QED BY <1>2, <1>4, <1>6, <1>8, <1>9, <1>10 DEF AInv

LEMMA StepApproves ==
    ASSUME IInv, IInv', AInv, [Next]_vars
    PROVE  AInv'
<1>1. CASE UNCHANGED vars BY <1>1, OthersApprove
<1>2. CASE Goroutine
  BY <1>2, SessionApproves, FinishTurnApproves, FinishInterventionApproves, FinishBadlyApproves,
     ChainApproves, PublishApproves, ImplementApproves, ReattachApproves, ReplanApproves,
     OthersApprove DEF Goroutine
<1>3. CASE Requests
  BY <1>3, RequestsApprove, SendCommandApproves, PauseApproves, QueueGuidanceApproves,
     ContinueApproves, ActOnResumeApproves, ResumeIntoReplanningApproves, OthersApprove
     DEF Requests
<1>4. CASE FinishRecovery \/ (\E c \in Callers : Advance(c)) \/ Crash \/ Restart
             \/ \E r \in Roles : EndTurn(r)
  BY <1>4, FinishRecoveryApproves, AdvanceApproves, RestartApproves, EndTurnApproves,
     OthersApprove
<1>5. QED BY <1>1, <1>2, <1>3, <1>4 DEF Next

\* The plan that is implemented is the submission that the reviewer approved,
\* in a completed turn of its own: however often a plan is sent back, turns
\* fail, the coordinator restarts or the user asks for a new plan version
\* (continueSubmittedPlan and StartImplementation in remote_lead.go).
THEOREM ImplementedPlanAlwaysApproved == Spec => []ImplementedPlanWasApproved
<1>1. Init => IInv /\ AInv BY InitSound, InitApproves
<1>2. IInv /\ AInv /\ [Next]_vars => IInv' /\ AInv' BY StepSound, StepApproves
<1>3. AInv => ImplementedPlanWasApproved BY DEF AInv, ImplementedPlanWasApproved, Approved
<1>4. QED BY <1>1, <1>2, <1>3, PTL DEF Spec
=============================================================================
