---------------------------- MODULE FeatureArtifacts ----------------------------
(***************************************************************************)
(* The revisioned documents of one work order that agents and coordinator  *)
(* write at the same time: the implementation checklist and the            *)
(* independent acceptance tests (workflow/service.go,                      *)
(* database/feature_artifact_store.go, cmd/artifact).  A write is composed *)
(* from a revision that was read before and stored only if it is still the *)
(* newest; an agent's helper may give up on a call the coordinator goes on *)
(* with, and say the same again.  Texts, times and identities are left out.*)
(***************************************************************************)
EXTENDS Naturals, Sequences
CONSTANTS
    Tests, Commanded,  \* the tests, and those whose command the coordinator can run
    Notes,             \* what a reviewer writes of a failure
    NumSteps,          \* the steps of a plan
    Commits,           \* bound: the commits published, numbered
    Told,              \* those the lead may name for a completed step
    Tries,             \* how often a coordinator's result is tried (5)
    MaxRevisions,      \* bound: revisions of one document
    MaxTroubles        \* bound: calls given up on, results reported again, further plans

VARIABLES
    docs,       \* each document's revisions, with the change that made each
    seen,       \* the events' idempotency keys, and what was written under them
    calls,      \* each writer's call in hand
    run,        \* the run, the version of its plan and the work's phase
    published,  \* the commit under review
    jobs,       \* the coordinator's own runs of the tests: what each came to
    refused,    \* changes refused as a reused key although nothing had changed meanwhile
    slips,      \* the known ways in which what was recorded is lost
    troubles
artifactVars == <<docs, seen, calls, run, published, jobs, refused, slips, troubles>>

Kinds == {"plan", "tests"}
Writers == {"lead", "reviewer", "given up", "coordinator", "result"}
NoCall == [stage |-> "none"]
Final == {"passed", "failed", "not_applicable"}
Latest(k) == docs[k][Len(docs[k])].doc
Written(k) == Len(docs[k]) > 0 /\ Latest(k).version = run.version /\ Latest(k).run = run.number
Free(w) == calls[w] = NoCall
Stands(k) == Written(k) /\ Len(docs[k]) < MaxRevisions

NewPlan == [version |-> run.version, run |-> run.number,
            status |-> [s \in 1..NumSteps |-> "pending"], commit |-> [s \in 1..NumSteps |-> 0]]
NewTests == [version |-> run.version, run |-> run.number, commit |-> 0, status |-> [t \in Tests |-> "pending"],
             note |-> [t \in Tests |-> ""], ran |-> 0, verdict |-> [t \in Tests |-> ""], error |-> FALSE]

InitArtifacts ==
    /\ docs = [k \in Kinds |-> <<>>] /\ seen = {} /\ calls = [w \in Writers |-> NoCall]
    /\ run = [number |-> 1, version |-> 1, phase |-> "planning"]
    /\ published = 0 /\ jobs = <<>> /\ refused = {} /\ slips = {} /\ troubles = 0

-----------------------------------------------------------------------------
(* What a change makes of a document *)

(* A step is begun in order, one at a time, and completed at a commit. *)
StepMay(d, x) ==
    IF x.to = "in_progress"
    THEN /\ d.status[x.item] = "pending" /\ \A i \in 1..(x.item - 1) : d.status[i] = "completed"
         /\ \A i \in 1..NumSteps : d.status[i] # "in_progress"
    ELSE d.status[x.item] = "in_progress"
(* A failed test runs again, or takes a new result directly. *)
TestMay(d, x) ==
    /\ d.commit # 0
    /\ CASE x.to = "running" -> d.status[x.item] \in {"pending", "failed"}
         [] x.to \in {"passed", "failed"} -> d.status[x.item] \in {"running", "failed"}
         [] x.to = "not_applicable" -> d.status[x.item] # "not_applicable"
May(k, d, x) == IF k = "plan" THEN StepMay(d, x) ELSE TestMay(d, x)
Already(k, d, x) ==
    /\ d.status[x.item] = x.to
    /\ IF k = "plan" THEN x.to = "completed" => d.commit[x.item] = x.note ELSE d.note[x.item] = x.note

Moved(k, d, x) ==
    IF k = "plan" THEN [d EXCEPT !.status[x.item] = x.to, !.commit[x.item] = IF x.to = "completed" THEN x.note ELSE 0]
    ELSE [d EXCEPT !.status[x.item] = x.to, !.note[x.item] = x.note]
(* A new commit under review: its tests have not run, except those that do not apply. *)
Pinned(d, x) ==
    LET stays(t) == d.status[t] = "not_applicable" IN
    [d EXCEPT !.commit = x.note, !.status = [t \in Tests |-> IF stays(t) THEN @[t] ELSE "pending"],
              !.note = [t \in Tests |-> IF stays(t) THEN @[t] ELSE ""]]
(* A run that could not run the tests leaves no verdict on any of them. *)
Judged(d, x) ==
    [d EXCEPT !.ran = x.job.commit, !.error = x.to = "error",
              !.verdict = [t \in Tests |-> IF x.to = "error" THEN "" ELSE IF t \notin Commanded THEN @[t]
                                           ELSE IF t \in x.passed THEN "passed" ELSE "failed"]]
Apply(k, d, x) ==
    CASE x.by \in {"lead", "reviewer"} -> Moved(k, d, x) [] x.by = "pin" -> Pinned(d, x)
      [] x.by = "result" -> Judged(d, x) [] x.by = "new" -> x.doc

-----------------------------------------------------------------------------
(* Storing a revision *)

(* Under a key that is known, the same change is answered with what was    *)
(* stored.  A completed step carries its time: no two are the same.        *)
SameAsStored(e, c) ==
    /\ e.kind = c.kind /\ e.expected = c.base /\ docs[e.kind][e.revision].doc = c.doc
    /\ c.change.by = "lead" => c.change.to # "completed"
PutAnswer(c) ==
    IF \E e \in seen : e.key = c.key
    THEN IF \E e \in seen : e.key = c.key /\ SameAsStored(e, c) THEN "stored" ELSE "reused"
    ELSE IF Len(docs[c.kind]) = c.base THEN "put" ELSE "moved"
Store(c) ==
    IF PutAnswer(c) = "put"
    THEN /\ docs' = [docs EXCEPT ![c.kind] = Append(@, [doc |-> c.doc, change |-> c.change])]
         /\ seen' = seen \cup {[key |-> c.key, kind |-> c.kind, expected |-> c.base, revision |-> c.base + 1]}
    ELSE UNCHANGED <<docs, seen>>

(* A change an agent still waits for is refused as a reused key although   *)
(* the revision it was made from is the newest: saying it again cannot     *)
(* help.  That is so of a test that fails once more in the same words, and *)
(* of one that is started again for the third time.                        *)
Refuses(w, c) == w \in {"lead", "reviewer"} /\ PutAnswer(c) = "reused" /\ c.base = Len(docs[c.kind])
Again(c) ==
    \E i, j \in 1..Len(docs["tests"]) :
        /\ i <= j /\ docs["tests"][i].change = c.change
        /\ docs["tests"][j].change.by = "reviewer" /\ docs["tests"][j].change.item = c.change.item
        /\ docs["tests"][j].change.to = "failed"
Put(w) ==
    LET c == calls[w] IN
    /\ c.stage = "made" /\ c.base < MaxRevisions
    /\ Store(c)
    /\ refused' = IF Refuses(w, c) THEN refused \cup {c.change} ELSE refused
    /\ slips' = slips \cup (IF Refuses(w, c) /\ c.kind = "tests" /\ Again(c) THEN {"again"} ELSE {})
                      \cup (IF PutAnswer(c) = "put" /\ w = "coordinator" /\ c.change.by = "pin" /\ c.read < c.base
                            THEN {"overwritten"} ELSE {})
                      \cup (IF PutAnswer(c) = "put" /\ w = "result"
                               /\ <<c.change.job.run, c.change.job.version>> # <<c.doc.run, c.doc.version>>
                            THEN {"old run"} ELSE {})
    /\ calls' = [calls EXCEPT ![w] =
                    IF w = "result" /\ PutAnswer(c) = "moved" /\ c.tries < Tries
                    THEN [c EXCEPT !.stage = "sent", !.tries = @ + 1] ELSE NoCall]
    /\ UNCHANGED <<run, published, jobs, troubles>>

-----------------------------------------------------------------------------
(* The agents' helper and the coordinator's handler *)

(* The handler adds the run to the key: a run after Back to Ready says the *)
(* same as the one before it.                                              *)
ScopedKey(key) == <<key, run.number>>

(* commitarium-artifact reads the document and sends one change of it; its *)
(* key names what the document said of a test, and not of a step.          *)
Send(w, k, x) ==
    /\ Stands(k) /\ Free(w)
    /\ \/ w = "lead" /\ k = "plan" /\ run.phase = "implementing"
       \/ w = "reviewer" /\ k = "tests" /\ run.phase = "reviewing"
    /\ calls' = [calls EXCEPT ![w] =
          [stage |-> "sent", kind |-> k, change |-> x, version |-> Latest(k).version,
           of |-> IF k = "tests" THEN Latest(k).commit ELSE 0,
           key |-> <<k, Latest(k).version, x, IF k = "tests" THEN <<Latest(k).commit, Latest(k).status[x.item]>> ELSE <<>>>>]]
    /\ UNCHANGED <<docs, seen, run, published, jobs, refused, slips, troubles>>
MoveStep == \E s \in 1..NumSteps, to \in {"in_progress", "completed"}, c \in Told :
    Send("lead", "plan", [by |-> "lead", item |-> s, to |-> to, note |-> IF to = "completed" THEN c ELSE 0])
MoveTest == \E t \in Tests, to \in {"running"} \cup Final, n \in Notes :
    Send("reviewer", "tests", [by |-> "reviewer", item |-> t, to |-> to,
                               note |-> IF to \in {"failed", "not_applicable"} THEN n ELSE ""])

(* The handler reads the newest revision, and refuses what does not fit it. *)
Fits(c) ==
    /\ Len(docs[c.kind]) > 0 /\ Latest(c.kind).version = c.version
    /\ c.kind = "tests" => Latest("tests").commit \in {0, c.of}
    /\ May(c.kind, Latest(c.kind), c.change) /\ ~Already(c.kind, Latest(c.kind), c.change)
Handle(w) ==
    LET c == calls[w] IN
    /\ w \in {"lead", "reviewer", "given up"} /\ c.stage = "sent"
    /\ calls' = [calls EXCEPT ![w] =
          IF ~Fits(c) THEN NoCall
          ELSE [stage |-> "made", kind |-> c.kind, change |-> c.change, key |-> ScopedKey(c.key),
                base |-> Len(docs[c.kind]), doc |-> Apply(c.kind, Latest(c.kind), c.change)]]
    /\ UNCHANGED <<docs, seen, run, published, jobs, refused, slips, troubles>>
(* The helper's time is up: the coordinator goes on with the call alone. *)
GiveUp(w) ==
    /\ w \in {"lead", "reviewer"} /\ ~Free(w) /\ Free("given up") /\ troubles < MaxTroubles /\ troubles' = troubles + 1
    /\ calls' = [calls EXCEPT !["given up"] = calls[w], ![w] = NoCall]
    /\ UNCHANGED <<docs, seen, run, published, jobs, refused, slips>>

-----------------------------------------------------------------------------
(* The coordinator's own writes *)

(* Upsert replaces whatever is newest, unless it says the same. *)
Upsert ==
    LET c == calls["coordinator"] IN
    /\ c.stage = "composed"
    /\ calls' = [calls EXCEPT !["coordinator"] =
          IF docs[c.kind] # <<>> /\ Latest(c.kind) = c.doc THEN NoCall
          ELSE [c EXCEPT !.stage = "made", !.base = Len(docs[c.kind])]]
    /\ UNCHANGED <<docs, seen, run, published, jobs, refused, slips, troubles>>
Compose(k, x, d, key) ==
    calls' = [calls EXCEPT !["coordinator"] = [stage |-> "composed", kind |-> k, change |-> x, doc |-> d,
                                               key |-> key, read |-> Len(docs[k]), base |-> 0]]

(* The lead's plan, and the reviewer's tests while the lead implements. *)
Submit(k) ==
    LET d == IF k = "plan" THEN NewPlan ELSE NewTests IN
    /\ Free("coordinator") /\ ~Written(k) /\ Len(docs[k]) < MaxRevisions
    /\ run.phase = IF k = "plan" THEN "planning" ELSE "implementing"
    /\ Compose(k, [by |-> "new", doc |-> d], d, <<"new", k, run.number, run.version>>)
    /\ UNCHANGED <<docs, seen, run, published, jobs, refused, slips, troubles>>
Approve ==
    /\ run.phase = "planning" /\ Written("plan") /\ Free("coordinator")
    /\ run' = [run EXCEPT !.phase = "implementing"]
    /\ UNCHANGED <<docs, seen, calls, published, jobs, refused, slips, troubles>>

(* The first publication is taken only when the checklist is done and its  *)
(* last step is the published commit; a correction is not asked for it.    *)
ChecklistDone(c) ==
    /\ Written("plan") /\ \A s \in 1..NumSteps : Latest("plan").status[s] = "completed"
    /\ Latest("plan").commit[NumSteps] = c
Publish(c) ==
    /\ \/ run.phase = "implementing" /\ ChecklistDone(c)
       \/ run.phase = "correcting" /\ c = published + 1
    /\ published' = c /\ run' = [run EXCEPT !.phase = "published"]
    /\ UNCHANGED <<docs, seen, calls, jobs, refused, slips, troubles>>
Pin ==
    LET x == [by |-> "pin", note |-> published, to |-> "pinned"] IN
    /\ run.phase = "published" /\ Free("coordinator") /\ Stands("tests")
    /\ Latest("tests").commit # published
    /\ Compose("tests", x, Apply("tests", Latest("tests"), x), <<"pin", run.number, run.version, published>>)
    /\ UNCHANGED <<docs, seen, run, published, jobs, refused, slips, troubles>>
(* The review starts, and the coordinator's own run of the tests with it. *)
Job(d) == [run |-> run.number, version |-> d.version, commit |-> d.commit]
StartReview ==
    /\ run.phase = "published" /\ Free("coordinator") /\ Written("tests") /\ Latest("tests").commit = published
    /\ run' = [run EXCEPT !.phase = "reviewing"]
    /\ jobs' = IF Job(Latest("tests")) \in DOMAIN jobs THEN jobs
               ELSE [j \in DOMAIN jobs \cup {Job(Latest("tests"))} |-> IF j \in DOMAIN jobs THEN jobs[j] ELSE <<"pending", {}>>]
    /\ UNCHANGED <<docs, seen, calls, published, refused, slips, troubles>>
(* A review is taken with a final result of every test, and an approval    *)
(* with none that failed.                                                  *)
FinishReview(phase) ==
    LET d == Latest("tests") IN
    /\ run.phase = "reviewing" /\ Free("reviewer") /\ Free("coordinator") /\ phase \in {"approved", "correcting"}
    /\ Written("tests") /\ d.commit = published /\ \A t \in Tests : d.status[t] \in Final
    /\ phase = "approved" => \A t \in Tests : d.status[t] # "failed"
    /\ run' = [run EXCEPT !.phase = phase]
    /\ UNCHANGED <<docs, seen, calls, published, jobs, refused, slips, troubles>>

(* The desktop reports a run of the tests; it may report it again. *)
ReportJob(j, to, passed) ==
    /\ j \in DOMAIN jobs /\ Free("result") /\ passed \subseteq Commanded
    /\ to = "error" => passed = {}
    /\ \/ jobs[j] = <<"pending", {}>> /\ jobs' = [jobs EXCEPT ![j] = <<to, passed>>] /\ UNCHANGED troubles
       \/ jobs[j] = <<to, passed>> /\ troubles < MaxTroubles /\ troubles' = troubles + 1 /\ UNCHANGED jobs
    /\ calls' = [calls EXCEPT !["result"] = [stage |-> "sent", kind |-> "tests", tries |-> 1,
                    change |-> [by |-> "result", job |-> j, to |-> to, passed |-> passed]]]
    /\ UNCHANGED <<docs, seen, run, published, refused, slips>>
RecordResult ==
    LET c == calls["result"]
        d == Apply("tests", Latest("tests"), c.change)
    IN
    /\ c.stage = "sent" /\ Len(docs["tests"]) < MaxRevisions
    /\ calls' = [calls EXCEPT !["result"] =
          IF Latest("tests") = d THEN NoCall
          ELSE [stage |-> "made", kind |-> "tests", change |-> c.change, tries |-> c.tries, doc |-> d,
                base |-> Len(docs["tests"]), key |-> <<"result", c.change.job, Len(docs["tests"])>>]]
    /\ UNCHANGED <<docs, seen, run, published, jobs, refused, slips, troubles>>

(* Replanning, and starting over: the agents' calls have long ended by     *)
(* then, a run of the tests need not have.                                 *)
PlanAgain(over) ==
    /\ run.phase \in {"implementing", "reviewing", "correcting", "published"}
    /\ troubles < MaxTroubles /\ troubles' = troubles + 1
    /\ \A w \in Writers \ {"result"} : Free(w)
    /\ run' = [number |-> IF over THEN run.number + 1 ELSE run.number,
               version |-> IF over THEN 1 ELSE run.version + 1, phase |-> "planning"]
    /\ published' = 0
    /\ UNCHANGED <<docs, seen, calls, jobs, refused, slips>>

(* A behaviour is followed to its first slip. *)
NextArtifacts == slips = {} /\ (
    \/ \E w \in Writers : Put(w) \/ Handle(w) \/ GiveUp(w)
    \/ MoveStep \/ MoveTest \/ Upsert \/ Approve \/ Pin \/ StartReview \/ RecordResult
    \/ \E k \in Kinds : Submit(k)
    \/ \E c \in 1..Commits : Publish(c)
    \/ \E phase \in {"approved", "correcting"} : FinishReview(phase)
    \/ \E j \in DOMAIN jobs, to \in {"ran", "error"}, passed \in SUBSET Commanded : ReportJob(j, to, passed)
    \/ \E over \in BOOLEAN : PlanAgain(over))

-----------------------------------------------------------------------------
(* What must hold *)

ArtifactsTypeOK ==
    /\ DOMAIN docs = Kinds /\ DOMAIN calls = Writers /\ troubles \in 0..MaxTroubles
    /\ run.phase \in {"planning", "implementing", "published", "reviewing", "correcting", "approved"}
    /\ \A k \in Kinds : Len(docs[k]) <= MaxRevisions

(* Every revision is the one before it with one change made to it: what    *)
(* another writer recorded in between is never lost.  A pin is composed    *)
(* from the caller's read and stored over a later one (service.go:209-236),*)
(* so a result recorded between the two reads is lost.                     *)
BuildsOnTheLast ==
    "overwritten" \notin slips =>
        \A k \in Kinds : \A i \in 2..Len(docs[k]) :
            docs[k][i].doc = Apply(k, docs[k][i - 1].doc, docs[k][i].change)

(* The coordinator's verdict on a test is what its run of this version's   *)
(* tests on the commit named came to.  The code does not ask which version *)
(* a result is of (service.go:244-299).                                    *)
VerdictsAreReal ==
    slips \cap {"overwritten", "old run"} = {} /\ docs["tests"] # <<>> =>
        LET d == Latest("tests")
            j == [run |-> d.run, version |-> d.version, commit |-> d.ran]
        IN  d.ran # 0 => /\ j \in DOMAIN jobs /\ jobs[j][1] # "pending"
                          /\ \A t \in Tests : d.verdict[t] = "passed" <=> t \in jobs[j][2]

(* What is under review was published with its checklist done in order;    *)
(* what is approved has a passing result, or a reason, for every test.     *)
ReviewedAsRecorded ==
    /\ run.phase \in {"published", "reviewing", "correcting", "approved"} =>
          \A s \in 1..NumSteps : Latest("plan").status[s] = "completed"
    /\ run.phase = "approved" =>
          /\ Latest("tests").commit = published
          /\ \A t \in Tests : Latest("tests").status[t] \in {"passed", "not_applicable"}

(* A change that is allowed and that nothing raced with is never refused   *)
(* for a key used before.                                                  *)
NothingIsRefusedForGood == "again" \notin slips => refused = {}

ArtifactsAreSound ==
    ArtifactsTypeOK /\ BuildsOnTheLast /\ VerdictsAreReal /\ ReviewedAsRecorded /\ NothingIsRefusedForGood
SpecArtifacts == InitArtifacts /\ [][NextArtifacts]_artifactVars
=============================================================================
