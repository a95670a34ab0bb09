------------------------------- MODULE Autopilot -------------------------------
(***************************************************************************)
(* The autopilot of one project (src/internal/conversations, goal.go and   *)
(* events.go): the watcher decides under the chat's lock which proposed    *)
(* cards to apply, lets the lock go, and sends each card through the same  *)
(* approve handler the user's click uses                                   *)
(* (src/internal/httpapi/assistant_chat.go).  The user, the assistant's    *)
(* turns and the work orders move in between, and the coordinator may      *)
(* restart between any two steps.  One chat, one goal that covers every    *)
(* item of the vision plan.                                                *)
(***************************************************************************)
EXTENDS Integers, Sequences, FiniteSets, SequencesExt
CONSTANTS
    Order,        \* the work orders there can be
    Item,         \* the items of the vision plan
    Cards,        \* how many cards the assistant proposes
    Proposal,     \* what a card may ask for: records of type, item, order, after
    Cap,          \* SafetyCap, how many work orders may run at once
    MaxContinues, \* maxAutoContinues
    Builds,       \* the project's assistant builds without a goal
    First,        \* the user's work orders and the assistant's that exist at the start
    Ours,         \* those of them that the assistant made
    None,         \* no order, no card
    MaxActs,      \* how often the user steps in
    MaxFailures,  \* how many handlers fail half way, and runs meet a blocker
    MaxCrashes    \* how often the coordinator restarts

ASSUME AutopilotAssumption ==
    /\ Cards \in Nat /\ Cap \in Nat \ {0} /\ MaxContinues \in Nat
    /\ Builds \in BOOLEAN /\ First \subseteq Order /\ Ours \subseteq First /\ None \notin Order
    /\ MaxActs \in Nat /\ MaxFailures \in Nat /\ MaxCrashes \in Nat

VARIABLES
    card,      \* the cards in the order of the chat; a created order's queued start is Cards further on
    order,     \* each work order: its feature's state, who created it, the card that started it
    blocked,   \* the work orders that wait on a blocker, and whether recovery is exhausted
    plan,      \* the vision plan: the work order linked to each item
    goal,      \* the goal: status, the work order it follows for each item, and the ones handed to it
    tries,     \* AutoContinues of each work order
    held,      \* early planners that wait before they implement
    cleared,   \* work orders that have passed the check and are about to implement
    watcher,   \* where the watcher's tick is
    todo,      \* cards the watcher decided to apply
    handler,   \* the approve handler for the watcher and for the user
    auto,      \* orders the watcher's handler created
    excused,   \* orders whose link a crash lost, or whose close was decided and failed
    touched,   \* orders of the user the watcher's handler acted on without their being handed over
    acts, failures, crashes
vars == <<card, order, blocked, plan, goal, tries, held, cleared, watcher, todo, handler,
          auto, excused, touched, acts, failures, crashes>>
work == <<order, blocked, plan, tries, held, cleared>>
ghosts == <<auto, excused, touched>>

Card == 1..(2 * Cards)
Caller == {"autopilot", "user"}
NoCard == [type |-> "create", item |-> None, order |-> None, after |-> None, status |-> "absent",
           tried |-> FALSE, left |-> FALSE, queued |-> FALSE, early |-> FALSE, hold |-> FALSE, at |-> 0]
Idle == [at |-> "idle", card |-> 0, order |-> None, start |-> FALSE, ok |-> TRUE]

(* Terminal states of a feature, those that count as running, and those an early planner may plan beside.   *)
(* "implementing" is also a feature under review: nothing here tells the two apart.                          *)
Over == {"completed", "cancelled"}
Implementing == {"implementing", "ready_to_merge"}
Exists(w) == order[w].state # "absent"
Unfinished(w) == w \in Order /\ Exists(w) /\ order[w].state \notin Over
Active == goal.status = "active"

(* Cards that were applied and plan early; what running counts. *)
EarlyPlanners == {card[c].order : c \in {d \in Card : card[d].status = "applied" /\ card[d].early}}
Running == Cardinality({w \in Order : \/ order[w].state = "implementing"
                                      \/ order[w].state = "planning" /\ w \notin EarlyPlanners})

(* The order a card's start waits for: "After" names an order, or another card. *)
Follows(c) ==
    LET a == card[c].after IN
    IF card[c].type \notin {"create", "start"} THEN None
    ELSE IF a \notin Card THEN a
    ELSE IF card[a].status = "applied" THEN card[a].order ELSE None
WaitsFor(c) ==
    LET a == card[c].after IN
    \/ Unfinished(Follows(c))
    \/ /\ card[c].type \in {"create", "start"}
       /\ a \in Card /\ a # c /\ card[a].status = "proposed"

(* An early planner waits before it implements: for the work its latest start follows, then for a slot. *)
ImplementationHold(w) ==
    \E c \in Card :
        /\ card[c].status = "applied" /\ card[c].early /\ card[c].order = w
        /\ \A d \in Card : card[d].order = w => card[d].at <= card[c].at
        /\ WaitsFor(c) \/ Running >= Cap

(* Does the state of its order leave a card nothing to do? *)
Stale(k) ==
    /\ k.order # None
    /\ \/ k.type = "start" /\ order[k.order].state # "ready"
       \/ k.type = "close" /\ order[k.order].state \in Over
       \/ k.type = "continue" /\ blocked[k.order] = "no"
(* UpdatedAt, which only the cards that plan early are compared by. *)
Stamped(k) == [k EXCEPT !.at = IF k.early THEN 1 + Max({card[c].at : c \in Card}) ELSE 0]
Settled(k) == Stamped([k EXCEPT !.status = "applied", !.left = FALSE, !.queued = FALSE])

Fail == failures < MaxFailures /\ failures' = failures + 1
Acts == acts < MaxActs /\ acts' = acts + 1

Hands(w) == Active /\ w \in goal.handed
(* A work order the autopilot must leave to the user. *)
Theirs(w) == order[w].by = "user" /\ ~Builds /\ ~Hands(w)

TypeOK ==
    /\ \A c \in Card : card[c].status \in {"absent", "proposed", "applied", "dismissed"}
    /\ \A w \in Order : order[w].state \in
          {"absent", "ready", "planning", "implementing", "ready_to_merge"} \cup Over
    /\ goal.status \in {"none", "active", "done", "stopped"}
    /\ held \cap cleared = {} /\ auto \subseteq Order
    /\ \A p \in Caller : handler[p].at \in {"idle", "act", "link", "resolve", "outcome"}
    /\ watcher \in {"observe", "release", "look", "apply"}

Init ==
    /\ card = [c \in Card |-> NoCard]
    /\ order = [w \in Order |-> [state |-> IF w \in First THEN "ready" ELSE "absent", by |-> IF w \in Ours THEN "assistant" ELSE "user", key |-> 0, item |-> None]]
    /\ blocked = [w \in Order |-> "no"]
    /\ plan \in [Item -> First \cup {None}]
    /\ goal = [status |-> "none", follows |-> [i \in Item |-> None], handed |-> {}]
    /\ tries = [w \in Order |-> 0]
    /\ held = {} /\ cleared = {}
    /\ watcher = "observe" /\ todo = <<>> /\ handler = [p \in Caller |-> Idle]
    /\ auto = {} /\ excused = {} /\ touched = {} /\ acts = 0 /\ failures = 0 /\ crashes = 0

-----------------------------------------------------------------------------
(* The assistant proposes a card in a turn. *)
Propose(c) ==
    /\ c <= Cards /\ card[c].status = "absent" /\ \A d \in 1..(c - 1) : card[d].status # "absent"
    /\ \E q \in Proposal :
        /\ q.order # None => Exists(q.order)
        /\ q.after \in Card => q.after < c
        /\ card' = [card EXCEPT ![c] = [NoCard EXCEPT
                      !.type = q.type, !.item = q.item, !.order = q.order, !.after = q.after,
                      !.status = "proposed"]]
    /\ UNCHANGED <<work, goal, watcher, todo, handler, ghosts, acts, failures, crashes>>

(* The user dismisses a card, starts the autopilot and stops it. *)
Dismiss(c) ==
    /\ Acts /\ card[c].status = "proposed"
    /\ card' = [card EXCEPT ![c].status = "dismissed"]
    /\ UNCHANGED <<work, goal, watcher, todo, handler, ghosts, failures, crashes>>

Done(i) == plan[i] # None /\ order[plan[i]].state = "completed"
StartGoal ==
    /\ ~Active
    /\ \E i \in Item : ~Done(i)
    /\ goal' = [status |-> "active", follows |-> plan, handed |-> {plan[i] : i \in Item} \ {None}]
    /\ UNCHANGED <<card, work, watcher, todo, handler, ghosts, acts, failures, crashes>>
StopGoal ==
    /\ Acts /\ Active
    /\ goal' = [goal EXCEPT !.status = "stopped"]
    /\ UNCHANGED <<card, work, watcher, todo, handler, ghosts, failures, crashes>>

-----------------------------------------------------------------------------
(* Fault: the end of planning does not ask whether the order must wait. *)
EndPlanningUnheld(w) ==
    /\ order[w].state = "planning" /\ w \notin held \cup cleared /\ blocked[w] = "no"
    /\ cleared' = cleared \cup {w}
    /\ UNCHANGED <<held, card, order, blocked, plan, goal, tries, watcher, todo, handler, ghosts, acts, failures, crashes>>
(* Work orders move by their runs and by the user's own hand.  The end of planning is where an *)
(* early planner is held; the check and the move to implementing are two steps of the run.     *)
EndPlanning(w) ==
    /\ order[w].state = "planning" /\ w \notin held \cup cleared /\ blocked[w] = "no"
    /\ IF ImplementationHold(w)
       THEN held' = held \cup {w} /\ UNCHANGED cleared
       ELSE cleared' = cleared \cup {w} /\ UNCHANGED held
    /\ UNCHANGED <<card, order, blocked, plan, goal, tries, watcher, todo, handler, ghosts, acts, failures, crashes>>

Advance(w) ==
    /\ blocked[w] = "no"
    /\ \/ /\ w \in cleared
          /\ cleared' = cleared \ {w} /\ order' = [order EXCEPT ![w].state = "implementing"]
       \/ /\ order[w].state = "implementing" /\ UNCHANGED cleared
          /\ order' = [order EXCEPT ![w].state = "ready_to_merge"]
       \/ /\ order[w].state = "ready_to_merge" /\ UNCHANGED cleared
          /\ order' = [order EXCEPT ![w].state = "completed"]
    /\ UNCHANGED <<card, blocked, plan, goal, tries, held, watcher, todo, handler, ghosts, acts, failures, crashes>>
Block(w) ==
    /\ Fail /\ order[w].state \in {"planning", "implementing"} /\ blocked[w] = "no" /\ w \notin held
    /\ \E b \in {"yes", "exhausted"} : blocked' = [blocked EXCEPT ![w] = b]
    /\ UNCHANGED <<card, order, plan, goal, tries, held, cleared, watcher, todo, handler, ghosts, acts, crashes>>

(* Closing takes a started order back to Ready and then cancels it. *)
Closed(w) ==
    /\ order' = [order EXCEPT ![w].state = "cancelled"]
    /\ blocked' = [blocked EXCEPT ![w] = "no"]
    /\ held' = held \ {w} /\ cleared' = cleared \ {w}
UserMoves(w) ==
    /\ Acts
    /\ \/ order[w].state = "ready" /\ order' = [order EXCEPT ![w].state = "planning"] /\ UNCHANGED <<blocked, held, cleared>>
       \/ Unfinished(w) /\ Closed(w)
    /\ UNCHANGED <<card, plan, goal, tries, watcher, todo, handler, ghosts, failures, crashes>>

(* The user links a work order to an item of the vision plan. *)
UserLinks(i, w) ==
    /\ Acts /\ Exists(w) /\ plan[i] # w
    /\ plan' = [plan EXCEPT ![i] = w]
    /\ UNCHANGED <<card, order, blocked, goal, tries, held, cleared, watcher, todo, handler, ghosts, failures, crashes>>

-----------------------------------------------------------------------------
(* A tick of the watcher: observe the work, release early planners, look at the cards, apply.   *)
(* Goal.progress reads the plan and the features' states.                                        *)
Observe ==
    /\ watcher = "observe" /\ watcher' = "release"
    /\ goal' = IF ~Active THEN goal
               ELSE [goal EXCEPT !.follows = plan, !.status = IF \A i \in Item : Done(i) THEN "done" ELSE @]
    /\ UNCHANGED <<card, work, todo, handler, ghosts, acts, failures, crashes>>

(* ReleaseImplementation advances the waiting run, which asks for a hold once more. *)
Release(w) ==
    /\ watcher = "release" /\ w \in held /\ ~ImplementationHold(w)
    /\ held' = held \ {w} /\ order' = [order EXCEPT ![w].state = "implementing"]
    /\ UNCHANGED <<card, blocked, plan, goal, tries, cleared, watcher, todo, handler, ghosts, acts, failures, crashes>>
LeaveReleases ==
    /\ watcher = "release" /\ \A w \in held : ImplementationHold(w)
    /\ watcher' = "look"
    /\ UNCHANGED <<card, work, goal, todo, handler, ghosts, acts, failures, crashes>>

(* What one look has decided so far; claims are the items an earlier card of the look creates for. *)
Look == [card |-> card, tries |-> tries, running |-> Running, claims |-> {}, closing |-> {}, todo |-> <<>>]
GoalOrders == {goal.follows[i] : i \in Item} \ {None}
Created(w) == \E c \in Card : card[c].type = "create" /\ card[c].status = "applied" /\ card[c].order = w /\ card[c].tried

(* A create waits for an item that the order claims: its replacement comes with its close. *)
Replaced(w) == \E c \in Card : /\ card[c].type = "create" /\ card[c].status = "proposed" /\ ~card[c].tried
                               /\ card[c].item # None
                               /\ \/ Active /\ goal.follows[card[c].item] = w
                                  \/ \E d \in Card : /\ card[d].type = "create" /\ card[d].status = "applied"
                                                     /\ card[d].item = card[c].item /\ card[d].order = w

InGoal(c) ==
    LET k == card[c] IN
    CASE k.type = "create" -> Builds \/ (Active /\ k.item # None)
      [] k.type \in {"start", "continue"} -> Builds \/ (Active /\ k.order \in GoalOrders)
      [] OTHER -> IF Active /\ k.order \in GoalOrders THEN \/ blocked[k.order] = "exhausted"
                       \/ /\ Builds /\ Replaced(k.order) /\ blocked[k.order] # "no"
                          /\ order[k.order].by = "assistant" \/ Hands(k.order)
                  ELSE Builds \/ Created(k.order)

(* Fault: an item is claimed only by what this look makes. *)
ClaimedNow(l, i) == i \in l.claims
(* An item already has a work order: the goal's, one a card made, or one this look makes. *)
Claimed(l, i) ==
    \/ i \in l.claims
    \/ \E w \in Order :
        /\ \/ Active /\ goal.follows[i] = w
           \/ \E c \in Card : card[c].type = "create" /\ card[c].status = "applied"
                              /\ card[c].item = i /\ card[c].order = w
        /\ w \notin l.closing /\ order[w].state # "cancelled"

(* A card that waits for other work, or for a free slot, is queued and looked at again. *)
PlansEarly(c) == card[c].type = "start" /\ (card[c].early \/ (WaitsFor(c) /\ Follows(c) # None
                                                          /\ order[Follows(c)].state \in Implementing))
Starts(c) == \/ card[c].type = "start" /\ ~PlansEarly(c)
             \/ card[c].type = "create" /\ ~WaitsFor(c)
Queues(l, c) ==
    /\ card[c].type = "start" /\ ~PlansEarly(c)
    /\ WaitsFor(c) \/ l.running >= Cap
Decided(l, c, fields) == [l EXCEPT !.card[c] = fields]

(* Everything else is tried once: left for the user, or decided. *)
LeftForUser(l, c) ==
    LET k == card[c] IN
    \/ k.order # None /\ Theirs(k.order)
    \/ k.type = "continue" /\ l.tries[k.order] >= MaxContinues
    \/ k.type = "create" /\ k.item # None /\ Claimed(l, k.item)
Try(l, c) ==
    LET k == card[c]
        full == l.running >= Cap
        tried == [k EXCEPT !.queued = FALSE, !.tried = TRUE, !.early = PlansEarly(c)]
        counted == [l EXCEPT !.running = IF Starts(c) /\ ~full THEN @ + 1 ELSE @]
    IN IF LeftForUser(l, c) THEN Decided(counted, c, [tried EXCEPT !.left = TRUE])
       ELSE [Decided(counted, c, [tried EXCEPT !.hold = k.type = "create" /\ (WaitsFor(c) \/ full)])
              EXCEPT !.todo = Append(@, c),
                     !.claims = IF k.type = "create" THEN @ \cup {k.item} ELSE @,
                     !.closing = IF k.type = "close" THEN @ \cup {k.order} ELSE @,
                     !.tries = IF k.type = "continue" THEN [@ EXCEPT ![k.order] = @ + 1] ELSE @]
(* Fault: a queued card counts as tried. *)
DecideOnce(l, c) ==
    IF Queues(l, c) THEN Decided(l, c, [card[c] EXCEPT !.queued = TRUE, !.tried = TRUE]) ELSE Try(l, c)
Decide(l, c) == IF Queues(l, c) THEN Decided(l, c, [card[c] EXCEPT !.queued = TRUE]) ELSE Try(l, c)

(* autopilotChat: settle the stale cards, then decide the others, closes first, and store the lot. *)
Settling == {c \in Card : card[c].status = "proposed" /\ Stale(card[c])}
LookAtCards ==
    /\ watcher = "look" /\ watcher' = "apply"
    /\ LET open == {c \in Card \ Settling : card[c].status = "proposed" /\ ~card[c].tried /\ InGoal(c)}
           closes == {c \in open : card[c].type = "close"}
           seen == FoldLeft(Decide, Look, SetToSortSeq(closes, <) \o SetToSortSeq(open \ closes, <))
       IN /\ card' = [c \in Card |-> IF c \in Settling THEN Settled(card[c]) ELSE seen.card[c]]
          /\ tries' = seen.tries /\ todo' = seen.todo
    /\ UNCHANGED <<order, blocked, plan, goal, held, cleared, handler, ghosts, acts, failures, crashes>>
ApplyNext ==
    /\ watcher = "apply" /\ handler["autopilot"].at = "idle" /\ todo = <<>>
    /\ watcher' = "observe"
    /\ UNCHANGED <<card, work, goal, todo, handler, ghosts, acts, failures, crashes>>

-----------------------------------------------------------------------------
(* approveConversationActionHandler.  The card must still wait; a stale one is settled; a work *)
(* order of the user's refuses the autopilot.  Then the effect, and the card's resolution.     *)
To(p, h) == handler' = [handler EXCEPT ![p] = h]
Reply(p, c, ok) == To(p, IF p = "user" THEN Idle ELSE [Idle EXCEPT !.at = "outcome", !.card = c, !.ok = ok])

Approve(p, c) ==
    /\ handler[p].at = "idle"
    /\ IF p = "user" THEN Acts /\ card[c].status = "proposed" /\ UNCHANGED todo
       ELSE UNCHANGED acts /\ watcher = "apply" /\ todo # <<>> /\ c = Head(todo) /\ todo' = Tail(todo)
    /\ \E start \in IF p = "user" THEN BOOLEAN ELSE {TRUE} :
       IF card[c].status # "proposed" THEN Reply(p, c, FALSE) /\ UNCHANGED card
       ELSE IF Stale(card[c]) THEN card' = [card EXCEPT ![c] = Settled(@)] /\ Reply(p, c, TRUE)
       ELSE IF p = "autopilot" /\ card[c].order # None /\ Theirs(card[c].order) THEN Reply(p, c, FALSE) /\ UNCHANGED card
       ELSE To(p, [Idle EXCEPT !.at = "act", !.card = c, !.start = start /\ ~card[c].hold,
                                !.order = card[c].order]) /\ UNCHANGED card
    /\ UNCHANGED <<work, goal, watcher, ghosts, failures, crashes>>

At(p, at) == handler[p].at = at
Chosen(p) == card[handler[p].card]
Ready(p) == To(p, [handler[p] EXCEPT !.at = "resolve"])
(* A goal that was stopped since the card was approved handed the order over all the same. *)
Touch(p, w) == touched' = IF p = "autopilot" /\ order[w].by = "user" /\ w \notin goal.handed
                          THEN touched \cup {w} ELSE touched

(* features.Create makes a new work order each time it is called. *)
Create(p) ==
    /\ At(p, "act") /\ Chosen(p).type = "create"
    /\ \E v \in Order : ~Exists(v)
    /\ \E w \in Order : /\ w = CHOOSE v \in Order : ~Exists(v)
                        /\ order' = [order EXCEPT ![w] = [state |-> "ready", by |-> "assistant", key |-> 0,
                                                             item |-> Chosen(p).item]]
                        /\ To(p, [handler[p] EXCEPT !.at = "link", !.order = w])
                        /\ auto' = IF p = "autopilot" THEN auto \cup {w} ELSE auto
    /\ UNCHANGED <<card, blocked, plan, goal, tries, held, cleared, watcher, todo, excused, touched, acts, failures, crashes>>
(* The new order is linked to its item, and started if the approval says so. *)
Link(p) ==
    LET h == handler[p] w == h.order IN
    /\ At(p, "link")
    /\ plan' = IF Chosen(p).item # None THEN [plan EXCEPT ![Chosen(p).item] = w] ELSE plan
    /\ \/ /\ order' = IF h.start /\ order[w].state = "ready"
                      THEN [order EXCEPT ![w] = [@ EXCEPT !.state = "planning", !.key = h.card]] ELSE order
          /\ Ready(p) /\ UNCHANGED failures
       \/ h.start /\ Fail /\ Reply(p, h.card, FALSE) /\ UNCHANGED order
    /\ UNCHANGED <<card, blocked, goal, tries, held, cleared, watcher, todo, ghosts, acts, crashes>>

(* A start carries the card's key: the run it made already is the answer. *)
Start(p) ==
    LET h == handler[p] w == h.order IN
    /\ At(p, "act") /\ Chosen(p).type = "start"
    /\ \/ /\ order[w].state = "ready" /\ order' = [order EXCEPT ![w] = [@ EXCEPT !.state = "planning", !.key = h.card]]
          /\ Ready(p) /\ Touch(p, w) /\ UNCHANGED failures
       \/ order[w].state # "ready" /\ order[w].key = h.card /\ Ready(p) /\ UNCHANGED <<order, touched, failures>>
       \/ order[w].state # "ready" /\ order[w].key # h.card /\ Reply(p, h.card, FALSE) /\ UNCHANGED <<order, touched, failures>>
       \/ order[w].state = "ready" /\ Fail /\ Reply(p, h.card, FALSE) /\ UNCHANGED <<order, touched>>
    /\ UNCHANGED <<card, blocked, plan, goal, tries, held, cleared, watcher, todo, auto, excused, acts, crashes>>
Continue(p) ==
    LET h == handler[p] w == h.order IN
    /\ At(p, "act") /\ Chosen(p).type = "continue"
    /\ IF blocked[w] = "no" THEN Reply(p, h.card, FALSE) /\ UNCHANGED <<blocked, touched>>
       ELSE blocked' = [blocked EXCEPT ![w] = "no"] /\ Ready(p) /\ Touch(p, w)
    /\ UNCHANGED <<card, order, plan, goal, tries, held, cleared, watcher, todo, auto, excused, acts, failures, crashes>>
Close(p) ==
    LET h == handler[p] w == h.order
        refused == excused' = IF p = "autopilot" THEN excused \cup {w} ELSE excused
    IN
    /\ At(p, "act") /\ Chosen(p).type = "close"
    /\ \/ order[w].state # "completed" /\ Closed(w) /\ Ready(p) /\ Touch(p, w) /\ UNCHANGED <<excused, failures>>
       \/ /\ order[w].state # "cancelled" /\ Reply(p, h.card, FALSE) /\ refused
          /\ UNCHANGED <<order, blocked, held, cleared, touched>>
          /\ IF order[w].state = "completed" THEN UNCHANGED failures ELSE Fail
    /\ UNCHANGED <<card, plan, goal, tries, watcher, todo, auto, acts, crashes>>

(* Service.Resolve: only a card that still waits is applied; the goal follows a created order. *)
Resolve(p) ==
    LET h == handler[p] c == h.card IN
    /\ At(p, "resolve")
    /\ IF card[c].status = "proposed"
       THEN /\ card' = [card EXCEPT ![c] = Stamped([@ EXCEPT !.status = "applied", !.left = FALSE, !.order = h.order])]
            /\ goal' = IF Active /\ card[c].type = "create" /\ card[c].item # None
                       THEN [goal EXCEPT !.follows[card[c].item] = h.order] ELSE goal
            /\ Reply(p, c, TRUE)
       ELSE Reply(p, c, FALSE) /\ UNCHANGED <<card, goal>>
    /\ UNCHANGED <<work, watcher, todo, ghosts, acts, failures, crashes>>

(* settleIfStale and autopilotOutcome: an applied card whose start was held gets a queued start; *)
(* a failed one is left for the user.                                                            *)
QueuedStart(c) == [NoCard EXCEPT !.type = "start", !.order = card[c].order, !.after = card[c].after,
                                 !.status = "proposed", !.queued = TRUE]
Outcome ==
    LET c == handler["autopilot"].card IN
    /\ At("autopilot", "outcome") /\ To("autopilot", Idle)
    /\ card' = IF handler["autopilot"].ok
               THEN IF card[c].hold /\ card[c].order # None THEN [card EXCEPT ![c + Cards] = QueuedStart(c)] ELSE card
               ELSE IF card[c].status = "proposed" /\ Stale(card[c]) THEN [card EXCEPT ![c] = Settled(@)]
               ELSE [card EXCEPT ![c] = [@ EXCEPT !.hold = FALSE, !.early = FALSE, !.at = 0, !.left = TRUE]]
    /\ UNCHANGED <<work, goal, watcher, todo, ghosts, acts, failures, crashes>>

(* The coordinator restarts: what the watcher had decided is gone, and so are the requests. *)
Crash ==
    /\ crashes < MaxCrashes /\ crashes' = crashes + 1
    /\ watcher' = "observe" /\ todo' = <<>> /\ handler' = [p \in Caller |-> Idle]
    /\ excused' = excused \cup {handler[p].order : p \in {q \in Caller : handler[q].at = "link"}}
    /\ UNCHANGED <<card, work, goal, auto, touched, acts, failures>>

Watch == \/ Observe \/ LeaveReleases \/ LookAtCards \/ ApplyNext \/ Outcome
         \/ \E w \in Order : Release(w)
         \/ \E c \in Card : Approve("autopilot", c)
Handle(p) == Create(p) \/ Link(p) \/ Start(p) \/ Continue(p) \/ Close(p) \/ Resolve(p)
Next ==
    \/ Watch \/ Crash \/ StartGoal \/ StopGoal
    \/ \E p \in Caller : Handle(p)
    \/ \E c \in Card : Propose(c) \/ Dismiss(c) \/ Approve("user", c)
    \/ \E i \in Item, w \in Order : UserLinks(i, w)
    \/ \E w \in Order : EndPlanning(w) \/ Advance(w) \/ Block(w) \/ UserMoves(w)
Spec == Init /\ [][Next]_vars

-----------------------------------------------------------------------------
(* The autopilot creates at most one work order for an item that is neither closed nor being    *)
(* replaced; and it acts on no work order of the user that was not handed to it.                *)
OneOrderPerItem ==
    \A i \in Item : Cardinality({w \in auto \ excused : order[w].state # "cancelled" /\ order[w].item = i}) <= 1
AutopilotIsSound == TypeOK /\ touched = {} /\ OneOrderPerItem

(* An order that was started to plan early does not go on to implement before what it follows   *)
(* has ended.  (Of two early starts that follow different work the later one decides, also if it  *)
(* was only settled: ImplementationHold.)                                                        *)
GoesOn(w) == \/ w \in cleared' \ cleared
             \/ w \in held /\ order[w].state = "planning" /\ order'[w].state = "implementing"
StartedEarly(w, c) == order[w].key = c /\ card[c].status = "applied" /\ card[c].early
OnlyStart(w, c) == \A d \in Card : card[d].early /\ card[d].order = w => card[d].after = card[c].after
EarlyWaits ==
    [][\A w \in Order, c \in Card : GoesOn(w) /\ StartedEarly(w, c) /\ OnlyStart(w, c) => ~WaitsFor(c)]_vars

(* A card the autopilot has taken up is on its way through the handler, done, or left to the    *)
(* user, and one whose start was held leaves a queued start behind; only a restart loses them.   *)
OnItsWay(c) == c \in Range(todo) \/ handler["autopilot"].card = c
NothingIsLeftBehind ==
    crashes = 0 => \A c \in Card : card[c].tried /\ ~card[c].left =>
        \/ OnItsWay(c)
        \/ card[c].status # "proposed" /\ (card[c].hold => card[c].status = "dismissed" \/ card[c + Cards].status # "absent")
=============================================================================
