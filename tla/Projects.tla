-------------------------------- MODULE Projects --------------------------------
(***************************************************************************)
(* Projects and their repositories (src/internal/project, gitimport,       *)
(* forgejo, projectdeletion, linkedrepo, projectenvironment): a project is *)
(* imported from a Git bundle, or made with an empty repository, or bound  *)
(* to a repository that is there; it is kept in step with a linked one;    *)
(* and it is deleted.  An import and a provisioning each hold a mutex of   *)
(* their own, a deletion another, a pull or a push a fourth; binding holds *)
(* none.  Each is a chain of requests, and the coordinator may restart     *)
(* between two of them.                                                    *)
(*                                                                         *)
(* A history is the set of the changes in it: the bundle d of an import,   *)
(* 0 for the empty root, 100.. for merged work orders, 200.. for changes   *)
(* made in the linked repository.                                          *)
(***************************************************************************)
EXTENDS Integers, FiniteSets
CONSTANTS
    MaxRequests,  \* how many imports, creations, bindings, deletions and new settings are asked for,
                  \* and how often the coordinator restarts, together
    MaxSyncs,     \* how often the user links, unlinks, pulls and pushes
    MaxChanges    \* how many work orders merge, and how often the linked repository changes

VARIABLES
    projects,   \* the rows of projects: "imported" by an import ID, "created" by a request key
    repos,      \* Forgejo's repositories: one for each project, and one of the user's own
    orders,     \* the project's work order and its run
    assistants, \* the projects whose setup assistant is at work
    deletions,  \* the rows of project_deletions
    links, remote, \* linked-repositories.json, and the linked repository
    call,       \* the calls that are under way, by the lock they hold
    landed,     \* what was merged or pulled into a repository
    races,      \* races the code loses, see README
    requests, syncs
projectVars == <<projects, repos, orders, assistants, deletions, links, remote, call, landed, races,
                 requests, syncs>>
linked == <<links, remote>>
counts == <<requests, syncs>>

Ids == {"imported", "created"}
Repos == Ids \union {"own"}
Bundles == {1, 2}
Calls == {"import", "provision", "bind", "delete", "sync"}
None == "none"
NoProject == [repo |-> None, settings |-> 0]
NoRepo == [of |-> -1, main |-> {}, upstream |-> {}, protected |-> FALSE]
NoDeletion == [status |-> None, key |-> 0, force |-> FALSE, repo |-> None]
NoLink == [url |-> None, pulled |-> FALSE]
Idle == [at |-> "idle", id |-> "imported", of |-> 0, repo |-> None, seen |-> {}]

TypeOK ==
    /\ \A i \in Ids : projects[i].repo \in Repos \union {None} /\ projects[i].settings \in 0..2
    /\ \A r \in Repos : repos[r].main \subseteq Nat /\ (repos[r].of = -1 => repos[r] = NoRepo)
    /\ orders \in [Ids -> {None, "idle", "waiting", "running"}]
    /\ \A i \in Ids : deletions[i].status \in {None, "pending", "completed"}

InitProjects ==
    /\ projects = [i \in Ids |-> NoProject]
    /\ repos = [r \in Repos |-> IF r = "own" THEN [NoRepo EXCEPT !.of = 0, !.main = {0}] ELSE NoRepo]
    /\ orders = [i \in Ids |-> None] /\ assistants = {} /\ deletions = [i \in Ids |-> NoDeletion]
    /\ links = [i \in Ids |-> NoLink] /\ remote = [main |-> {1}, pushed |-> {}]
    /\ call = [k \in Calls |-> Idle] /\ landed = [r \in Repos |-> {}] /\ races = {}
    /\ requests = 0 /\ syncs = 0

Exists(i) == projects[i] # NoProject
Pending(i) == deletions[i].status = "pending"
There(r) == r # None /\ repos[r].of # -1
Go(k, next) == call' = [call EXCEPT ![k].at = next]
End(k) == call' = [call EXCEPT ![k] = Idle]
Check(k, ok, next) == IF ok THEN Go(k, next) ELSE End(k)
Begin(k, c) == call[k] = Idle /\ call' = [call EXCEPT ![k] = c]
Request == requests < MaxRequests /\ requests' = requests + 1 /\ UNCHANGED syncs
SyncRequest == syncs < MaxSyncs /\ syncs' = syncs + 1 /\ UNCHANGED requests

(***************************************************************************)
(* Importing and provisioning.  Both find or make the repository, push the *)
(* bundle over whatever is there, set the default branch, and protect it.  *)
(***************************************************************************)
Elsewhere == UNCHANGED <<orders, assistants, deletions, landed, races>> /\ UNCHANGED linked
(* A retry finds the project's row; another bundle under the same ID finds another description. *)
Import ==
    /\ \E d \in Bundles :
         Begin("import", [Idle EXCEPT !.of = d, !.at = IF Exists("imported") THEN "verify" ELSE "ensure"])
    /\ Request /\ UNCHANGED <<projects, repos>> /\ Elsewhere
(* sameImportedProject: the user may have changed the settings since. *)
VerifyImport ==
    /\ call["import"].at = "verify"
    /\ Check("import", repos["imported"].of = call["import"].of /\ projects["imported"] = [repo |-> "imported", settings |-> 1], "link")
    /\ UNCHANGED <<projects, repos, counts>> /\ Elsewhere

(* Create stores the row first; a retry of it must ask for the same. *)
Create ==
    /\ Begin("provision", [Idle EXCEPT !.id = "created", !.at = "provision"])
    /\ Exists("created") => projects["created"].settings = 1
    /\ projects' = IF Exists("created") THEN projects ELSE [projects EXCEPT !["created"] = [repo |-> None, settings |-> 1]]
    /\ Request /\ UNCHANGED repos /\ Elsewhere
ProvisionForgejoRepository ==
    /\ call["provision"].at = "provision"
    /\ Check("provision", Exists("created") /\ projects["created"].repo = None, "ensure")
    /\ UNCHANGED <<projects, repos, counts>> /\ Elsewhere
UpdateSettings ==
    /\ \E i \in Ids : Exists(i) /\ projects[i].settings = 1 /\ projects' = [projects EXCEPT ![i].settings = 2]
    /\ Request /\ UNCHANGED <<repos, call>> /\ Elsewhere

Importers == {"import", "provision"}
EnsureImportRepository ==
    /\ \E k \in Importers : LET r == call[k].id IN
         /\ call[k].at = "ensure"
         /\ repos' = IF There(r) THEN repos ELSE [repos EXCEPT ![r] = [NoRepo EXCEPT !.of = call[k].of]]
         /\ Check(k, repos'[r].of = call[k].of, "push")
         /\ races' = IF deletions[r].status # None THEN races \union {"again"} ELSE races
    /\ UNCHANGED <<projects, orders, assistants, deletions, landed, counts>> /\ UNCHANGED linked
(* git push --force --prune: a protected branch takes no push that changes it. *)
Takes(repo, history) == ~repo.protected \/ repo.main = history
PushBundle ==
    /\ \E k \in Importers : LET r == call[k].id IN
         /\ call[k].at = "push"
         /\ LET ok == There(r) /\ Takes(repos[r], {call[k].of}) IN
            repos' = (IF ok THEN [repos EXCEPT ![r] = [@ EXCEPT !.main = {call[k].of}, !.upstream = {}]] ELSE repos) /\ Check(k, ok, "finalize")
    /\ UNCHANGED <<projects, counts>> /\ Elsewhere
FinalizeImportRepository ==
    /\ \E k \in Importers : LET r == call[k].id IN
         \/ call[k].at = "finalize" /\ Check(k, There(r) /\ repos[r].of = call[k].of, "protect") /\ UNCHANGED repos
         \/ /\ call[k].at = "protect" /\ Check(k, There(r), "store")
            /\ repos' = IF There(r) THEN [repos EXCEPT ![r].protected = TRUE] ELSE repos
    /\ UNCHANGED <<projects, counts>> /\ Elsewhere
StoreImportedProject ==
    /\ call["import"].at = "store"
    /\ projects' = IF Exists("imported") THEN projects ELSE [projects EXCEPT !["imported"] = [repo |-> "imported", settings |-> 1]]
    /\ Check("import", projects'["imported"] = [repo |-> "imported", settings |-> 1], "link")
    /\ races' = IF repos["imported"].main # {} THEN races ELSE races \union {"bound late"}
    /\ UNCHANGED <<repos, orders, assistants, deletions, landed, counts>> /\ UNCHANGED linked

(***************************************************************************)
(* Binding.  BindForgejoRepository checks the row in its transaction; a    *)
(* user's own binding asks Forgejo about the repository before that.       *)
(***************************************************************************)
BindRequest ==
    /\ \E r \in Repos, i \in Ids :
         /\ Exists(i) /\ projects[i].repo = None
         /\ There(r) /\ repos[r].main # {}                \* VerifyRepository: there, and not empty
         /\ Begin("bind", [Idle EXCEPT !.id = i, !.repo = r, !.at = "store"])
    /\ Request /\ UNCHANGED <<projects, repos>> /\ Elsewhere
BindOverBound ==  \* a mutant: the transaction takes a project that is bound already
    /\ \E k \in {"provision", "bind"} : LET i == call[k].id IN
         /\ call[k].at = "store" /\ End(k) /\ UNCHANGED races
         /\ projects' = IF Exists(i) THEN [projects EXCEPT ![i].repo = IF k = "bind" THEN call[k].repo ELSE i] ELSE projects
    /\ UNCHANGED <<repos, orders, assistants, deletions, landed, counts>> /\ UNCHANGED linked
(* A row may have appeared, or the repository been deleted, since the call looked. *)
BindForgejoRepository ==
    /\ \E k \in {"provision", "bind"} : LET i == call[k].id
                                            r == IF k = "bind" THEN call[k].repo ELSE i IN
         /\ call[k].at = "store" /\ End(k)
         /\ projects' = IF Exists(i) /\ projects[i].repo = None THEN [projects EXCEPT ![i].repo = r] ELSE projects
         /\ races' = races \union (IF projects' # projects /\ repos[r].main = {} THEN {"bound late"} ELSE {})
                           \union (IF Pending(i) \/ ~Exists(i) THEN {"left behind"} ELSE {})
    /\ UNCHANGED <<repos, orders, assistants, deletions, landed, counts>> /\ UNCHANGED linked

(***************************************************************************)
(* Work orders, as far as projects know them.                              *)
(***************************************************************************)
Order(i, from, to) == orders[i] = from /\ orders' = [orders EXCEPT ![i] = to]
WorkOrders ==
    /\ \E i \in Ids : LET r == projects[i].repo IN
         \/ Exists(i) /\ ~Pending(i) /\ Order(i, None, "idle") /\ UNCHANGED <<repos, landed>>
         \/ /\ Exists(i) /\ ~Pending(i) /\ There(r) /\ Order(i, "idle", "running") /\ UNCHANGED landed
            /\ repos' = [repos EXCEPT ![r].protected = TRUE]             \* EnsureRepositoryAccess
         \/ Order(i, "running", "waiting") /\ UNCHANGED <<repos, landed>>
         \/ Order(i, "waiting", "running") /\ UNCHANGED <<repos, landed>>
         \/ /\ There(r) /\ Order(i, "running", "idle")                    \* it is merged
            /\ \E c \in 101..(100 + MaxChanges) :
                 /\ \A s \in Repos : c \notin landed[s] /\ \A b \in 101..(c - 1) : \E q \in Repos : b \in landed[q]
                 /\ repos' = [repos EXCEPT ![r].main = @ \union {c}] /\ landed' = [landed EXCEPT ![r] = @ \union {c}]
    /\ UNCHANGED <<projects, assistants, deletions, call, races, counts>> /\ UNCHANGED linked
AssistantAtWork ==
    /\ \E i \in Ids : \/ Exists(i) /\ ~Pending(i) /\ assistants' = assistants \union {i}
                     \/ assistants' = assistants \ {i}
    /\ UNCHANGED <<projects, repos, orders, deletions, call, landed, races, counts>> /\ UNCHANGED linked

(***************************************************************************)
(* Deletion: a durable claim, the runs, the setup assistants, the work     *)
(* orders, the repository unless another project is bound to it, and the   *)
(* row last.  Only the same request may go on with a claim.                *)
(***************************************************************************)
Shared(i) == \E j \in Ids \ {i} : projects[j].repo = projects[i].repo
BeginDeletion ==
    /\ \E i \in Ids, key \in 1..2, force \in BOOLEAN : LET row == deletions[i] IN
         /\ row.status # "completed"
         /\ \/ row.status = "pending" /\ row.key = key /\ row.force = force /\ UNCHANGED deletions
            \/ /\ row = NoDeletion /\ Exists(i) /\ (force \/ orders[i] # "running")
               /\ deletions' = [deletions EXCEPT ![i] = [status |-> "pending", key |-> key, force |-> force,
                                                         repo |-> IF Shared(i) THEN None ELSE projects[i].repo]]
         /\ Begin("delete", [Idle EXCEPT !.id = i, !.repo = deletions'[i].repo, !.of = key,
                                         !.at = IF force THEN "stop" ELSE "assistants"])
    /\ Request /\ UNCHANGED <<projects, repos, orders, assistants, landed, races>> /\ UNCHANGED linked
Deleting == LET c == call["delete"] IN
    /\ \/ /\ c.at = "stop" /\ Go("delete", "assistants")
          /\ orders' = [orders EXCEPT ![c.id] = IF @ \in {"running", "waiting"} THEN "idle" ELSE @] /\ UNCHANGED <<assistants, deletions>>
       \/ /\ c.at = "assistants" /\ UNCHANGED orders
          /\ \/ /\ (c.id \in assistants => deletions[c.id].force) /\ Go("delete", "orders")
                /\ assistants' = assistants \ {c.id} /\ UNCHANGED deletions
             \/ /\ ~(c.id \in assistants => deletions[c.id].force) /\ End("delete") /\ UNCHANGED assistants
                /\ deletions' = [deletions EXCEPT ![c.id] = IF @.status = "pending" THEN NoDeletion ELSE @]
       \/ /\ c.at = "orders" /\ UNCHANGED <<assistants, deletions>>
          /\ Check("delete", orders[c.id] # "running", "repository")
          /\ orders' = IF orders[c.id] # "running" THEN [orders EXCEPT ![c.id] = None] ELSE orders
    /\ UNCHANGED <<projects, repos, landed, races, counts>> /\ UNCHANGED linked
DeleteRepository == LET r == call["delete"].repo IN
    /\ call["delete"].at = "repository" /\ Go("delete", "finish")
    /\ repos' = IF r # None THEN [repos EXCEPT ![r] = NoRepo] ELSE repos
    /\ landed' = IF r # None THEN [landed EXCEPT ![r] = {}] ELSE landed
    /\ races' = IF \E j \in Ids \ {call["delete"].id} : r # None /\ projects[j].repo = r THEN races \union {"bound late"} ELSE races
    /\ UNCHANGED <<projects, orders, assistants, deletions, counts>> /\ UNCHANGED linked
FinishDeletion == LET i == call["delete"].id IN
    /\ call["delete"].at = "finish" /\ End("delete")
    /\ IF orders[i] = None /\ Exists(i) /\ Pending(i)
       THEN projects' = [projects EXCEPT ![i] = NoProject] /\ deletions' = [deletions EXCEPT ![i].status = "completed"]
       ELSE UNCHANGED <<projects, deletions>>
    /\ races' = IF projects[i].repo \notin {None, deletions[i].repo} /\ ~Shared(i) THEN races \union {"left behind"} ELSE races
    /\ UNCHANGED <<repos, orders, assistants, landed, counts>> /\ UNCHANGED linked

(***************************************************************************)
(* The linked repository.  A pull copies its changes to a branch of the    *)
(* project's and fast-forwards the default branch, or leaves a merge to a  *)
(* work order; a push takes the default branch to a branch of its own.     *)
(***************************************************************************)
Outside == UNCHANGED <<projects, orders, assistants, deletions>>
(* The link file is rewritten under its lock; an entry that is gone reads as an empty one. *)
Link ==
    /\ \E i \in Ids : projects[i].repo # None /\ links' = [links EXCEPT ![i] = [url |-> "upstream", pulled |-> FALSE]]
    /\ SyncRequest /\ UNCHANGED <<repos, remote, call, landed, races>> /\ Outside
LinkImport ==
    /\ call["import"].at = "link" /\ End("import")
    /\ links' = IF projects["imported"].repo # None THEN [links EXCEPT !["imported"] = [url |-> "upstream", pulled |-> FALSE]] ELSE links
    /\ UNCHANGED <<repos, remote, landed, races, counts>> /\ Outside
Unlink ==
    /\ \E i \in Ids : links[i] # NoLink /\ links' = [links EXCEPT ![i] = NoLink]
    /\ SyncRequest /\ UNCHANGED <<repos, remote, call, landed, races>> /\ Outside
StartSync ==
    /\ \E i \in Ids, way \in {"pull", "push"} : links[i] # NoLink /\ Begin("sync", [Idle EXCEPT !.id = i, !.at = way])
    /\ SyncRequest /\ UNCHANGED <<repos, links, remote, landed, races>> /\ Outside
Pull == LET c == call["sync"]
            r == projects[c.id].repo IN
    /\ \/ /\ c.at = "pull" /\ UNCHANGED landed
          /\ IF ~There(r) \/ remote.main \subseteq repos[r].main THEN End("sync") /\ UNCHANGED repos
             ELSE /\ repos' = [repos EXCEPT ![r].upstream = remote.main]
                  /\ call' = [call EXCEPT !["sync"] = [c EXCEPT !.repo = r, !.seen = remote.main,
                                 !.at = IF repos[r].main \subseteq remote.main THEN "land" ELSE "record"]]
       \/ /\ c.at = "land"                                  \* FastForwardBranch: Forgejo refuses anything else
          /\ LET ok == repos[c.repo].upstream = c.seen /\ repos[c.repo].main \subseteq c.seen IN
             /\ Check("sync", ok, "record")
             /\ repos' = IF ok THEN [repos EXCEPT ![c.repo].main = c.seen] ELSE repos
             /\ landed' = IF ok THEN [landed EXCEPT ![c.repo] = @ \union c.seen] ELSE landed
    /\ UNCHANGED <<links, remote, races, counts>> /\ Outside
Push == LET c == call["sync"]
            r == projects[c.id].repo IN
    /\ c.at = "push"
    /\ LET ok == There(r) /\ ~ repos[r].main \subseteq remote.main /\ remote.pushed \subseteq repos[r].main IN
       Check("sync", ok, "record") /\ remote' = IF ok THEN [remote EXCEPT !.pushed = repos[r].main] ELSE remote
    /\ UNCHANGED <<repos, links, landed, races, counts>> /\ Outside
RecordSync == LET i == call["sync"].id IN
    /\ call["sync"].at = "record" /\ End("sync")
    /\ links' = [links EXCEPT ![i].pulled = TRUE]
    /\ races' = IF links[i] = NoLink THEN races \union {"unlinked"} ELSE races
    /\ UNCHANGED <<repos, remote, landed, counts>> /\ Outside
RemoteChanges ==
    /\ \E c \in 201..(200 + MaxChanges) :
         /\ c \notin remote.main /\ (c = 201 \/ c - 1 \in remote.main)
         /\ remote' = [remote EXCEPT !.main = @ \union {c} \union remote.pushed]
    /\ UNCHANGED <<repos, links, call, landed, races, counts>> /\ Outside

(* A restart ends every call where it is. *)
Restart ==
    /\ Request /\ \E k \in Calls : call[k] # Idle
    /\ call' = [k \in Calls |-> Idle]
    /\ UNCHANGED <<projects, repos, orders, assistants, deletions, landed, races>> /\ UNCHANGED linked

NextProjects ==
    \/ Import \/ VerifyImport \/ Create \/ ProvisionForgejoRepository \/ UpdateSettings
    \/ EnsureImportRepository \/ PushBundle \/ FinalizeImportRepository \/ StoreImportedProject
    \/ BindRequest \/ BindForgejoRepository \/ WorkOrders \/ AssistantAtWork
    \/ BeginDeletion \/ Deleting \/ DeleteRepository \/ FinishDeletion
    \/ Link \/ LinkImport \/ Unlink \/ StartSync \/ Pull \/ Push \/ RecordSync \/ RemoteChanges
    \/ Restart
SpecProjects == InitProjects /\ [][NextProjects]_projectVars

(* What was merged or pulled into a bound repository stays in it, whatever an import is retried. *)
NothingLandedIsLost == \A r \in Repos : landed[r] \subseteq repos[r].main
(* An imported project holds its own bundle, and a bound project a repository that is there. *)
BoundIsReal ==
    \A i \in Ids : LET r == projects[i].repo IN
        r # None /\ ~Pending(i) => There(r) /\ (r = i => repos[r].of \in repos[r].main)
                     /\ (orders[i] = "running" => repos[r].protected)
(* A deletion that is complete leaves neither a work order nor a repository that was the project's alone. *)
DeletedIsGone ==
    \A i \in Ids : deletions[i].status = "completed" /\ ~Exists(i) =>
        orders[i] = None /\ (deletions[i].repo = i => ~There(i) \/ \E k \in Importers : call[k].id = i /\ call[k] # Idle)
(* A link that is there has an address. *)
LinksAreReal == \A i \in Ids : links[i] # NoLink => links[i].url # None
ProjectsAreSound ==
    /\ TypeOK /\ NothingLandedIsLost
    /\ "bound late" \notin races => BoundIsReal
    /\ races \intersect {"left behind", "again"} = {} => DeletedIsGone
    /\ "unlinked" \notin races => LinksAreReal
=============================================================================
