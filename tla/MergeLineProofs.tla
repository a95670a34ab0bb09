---------------------------- MODULE MergeLineProofs ----------------------------
(***************************************************************************)
(* Proofs about MergeLine for any number of work orders, updates, pauses,  *)
(* user merges and restarts: what is recorded as merged is what Forgejo    *)
(* merged and what is approved; an order that was merged in time was       *)
(* validated and is left alone; and an order that merges on its own        *)
(* overtakes nobody.                                                       *)
(*                                                                         *)
(* A merge reads, asks Forgejo and writes in steps between which its order *)
(* may be updated, reviewed again and pinned.  The invariant says what its *)
(* reads are still worth: the branch only moves on from the commits it has *)
(* read, and one that is still the branch's head is still approved; and    *)
(* from the moment Forgejo merges, branch and approval stay as they are.   *)
(***************************************************************************)
EXTENDS MergeLine, FiniteSetTheorems, TLAPS

-----------------------------------------------------------------------------
(* The invariant.                                                          *)

RunType == [status : RunStatuses, kind : WaitKinds \cup {"none", "paused"}, paused : BOOLEAN,
            from : WaitKinds \cup {"none"}, why : Why]
RunOK(r) ==
    /\ r \in RunType /\ (r.paused <=> r.kind = "paused")
    /\ r.status = "waiting" => r.kind # "none"
    /\ r.status # "waiting" /\ ~r.paused => r.kind = "none"
    /\ r.from # "none" => r.paused
WorkspaceType == [head : Nat, approved : Nat, forged : Nat, merged : Nat, base : Nat]
UpdateType == [turn : Nat, verified : Nat, intent : BOOLEAN, failed : SUBSET Nat, onto : Nat \cup {-1}]
JobType == [commit : Nat, status : {"none", "pending", "passed", "failed"}]
Features == {"ready_to_merge", "reviewing", "completed"}
PlaceType == [at : Steps, quiet : BOOLEAN, saw : RunStatuses \cup {"none", "other", "behind"},
              was : Features \cup {"none"}, passed : Nat, commit : Nat, onto : Nat \cup {-1}]

UpdFits(u) == u \in UpdateType /\ u.verified <= u.turn /\ u.failed \subseteq 1 .. u.turn
WsFits(x, m) == x \in WorkspaceType /\ x.approved <= x.head /\ x.base <= m

RunsTyped == run \in [Orders -> RunType] /\ \A w \in Orders : RunOK(run[w])
LineTyped == queue \subseteq Orders \X Orders /\ InOrder(queue)
PlacesTyped == pc \in [Orders -> [Who -> PlaceType]]
\* Commits and updates are counted.
UpdatesFit == upd \in [Orders -> UpdateType] /\ \A w \in Orders : UpdFits(upd[w])
JobsTyped == job \in [Orders -> JobType]
RowsTyped ==
    /\ feature \in [Orders -> Features] /\ validated \in BOOLEAN
    /\ main \in Nat /\ ws \in [Orders -> WorkspaceType] /\ \A w \in Orders : WsFits(ws[w], main)

\* The steps that a merge takes under mergeMu, and those in which it holds commits.
Merging == {"read", "forge", "mark", "complete", "finish"}
Choosing == {"read", "forge", "mark"}

\* A commit that a merge has read: the branch only moves on from it.
CommitFits(w, c) == 0 < c /\ c <= ws[w].head /\ (c = ws[w].head => ws[w].approved = c)

\* A goroutine that merges w is the only one that merges, and what it has read
\* of the commits still tells what it may merge.
MergeFits(w, k) ==
  LET me == pc[w][k]
  IN  me.at \in Merging =>
      /\ mergeMu = <<w, k>> /\ me.was # "none"
      /\ me.at \in Choosing => CommitFits(w, me.passed) /\ (validated /\ me.passed = ws[w].approved => Passed(w))
      /\ me.at \in {"forge", "mark"} => CommitFits(w, me.commit)
      /\ me.at = "mark" => ws[w].forged = me.commit
      /\ me.at \in {"complete", "finish"} => ws[w].merged # 0
      /\ w \notin late => /\ me.was = "completed" \/ me.at = "finish" => feature[w] = "completed"
                          /\ me.was = "reviewing" => ws[w].merged = 0

\* What Forgejo merged stays the branch's head and the approved commit, and
\* what is recorded as merged is what Forgejo merged.
ForgedFits(w) ==
    /\ ws[w].forged # 0 => ws[w].head = ws[w].forged /\ ws[w].approved = ws[w].forged
    /\ ws[w].merged # 0 => ws[w].merged = ws[w].forged
    /\ feature[w] = "completed" \/ run[w].status = "succeeded" => ws[w].merged # 0

\* An order that was merged in time is where the merge left it.
InTimeFits(w) ==
    ws[w].merged # 0 /\ w \notin late =>
      /\ feature[w] # "reviewing" /\ ~Updating(w)
      /\ validated => Passed(w)
      /\ run[w].status = "succeeded" => feature[w] = "completed"

\* An order that is reviewed again is being updated, or is about to be.
Begun(w) ==
    /\ feature[w] = "reviewing" => upd[w].intent \/ upd[w].turn > 0
    /\ pc[w]["owner"].at \in {"leave", "admit"} => upd[w].intent
    /\ pc[w]["owner"].at \in {"turn", "again"} => upd[w].turn > 0

OrderFits(w) == ForgedFits(w) /\ InTimeFits(w) /\ Begun(w) /\ \A k \in Who : MergeFits(w, k)

Forged == {w \in Orders : ws[w].forged # 0}

IInv ==
    /\ RunsTyped /\ LineTyped /\ PlacesTyped /\ UpdatesFit /\ JobsTyped /\ RowsTyped
    /\ \A w \in Orders : OrderFits(w)
    /\ main = Cardinality(Forged)

-----------------------------------------------------------------------------
(* The line.                                                               *)

LEMMA OnlyKeepsOrder ==
    ASSUME NEW line, line \subseteq Orders \X Orders, InOrder(line), NEW S
    PROVE  Only(line, S) \subseteq Orders \X Orders /\ InOrder(Only(line, S))
<1>1. \A v, w : <<v, w>> \in Only(line, S) <=> <<v, w>> \in line /\ v \in S /\ w \in S
  BY DEF Only
<1>2. \A v, w : Ahead(v, w, Only(line, S)) <=> Ahead(v, w, line) /\ v \in S /\ w \in S
  BY <1>1 DEF Ahead
<1>3. \A v : InLine(v, Only(line, S)) <=> InLine(v, line) /\ v \in S
  BY <1>1 DEF InLine
<1>4. Only(line, S) \subseteq Orders \X Orders
  BY DEF Only
<1> HIDE DEF Only
<1>5. ASSUME NEW v \in Orders, NEW w \in Orders
      PROVE  /\ <<v, w>> \in Only(line, S) => /\ InLine(v, Only(line, S)) /\ InLine(w, Only(line, S))
                                              /\ ~Ahead(w, v, Only(line, S))
             /\ InLine(v, Only(line, S)) /\ InLine(w, Only(line, S))
                  => <<v, w>> \in Only(line, S) \/ <<w, v>> \in Only(line, S)
             /\ \A x \in Orders : Ahead(v, w, Only(line, S)) /\ Ahead(w, x, Only(line, S)) => Ahead(v, x, Only(line, S))
  <2>1. /\ <<v, w>> \in line => InLine(v, line) /\ InLine(w, line) /\ ~Ahead(w, v, line)
        /\ InLine(v, line) /\ InLine(w, line) => <<v, w>> \in line \/ <<w, v>> \in line
        /\ \A x \in Orders : Ahead(v, w, line) /\ Ahead(w, x, line) => Ahead(v, x, line)
    BY DEF InOrder
  <2> QED
    BY <1>1, <1>2, <1>3, <2>1
<1> QED
  BY <1>4, <1>5 DEF InOrder

LEMMA JoinedKeepsOrder ==
    ASSUME queue \subseteq Orders \X Orders, InOrder(queue), NEW w \in Orders
    PROVE  /\ Joined(w) \subseteq Orders \X Orders /\ InOrder(Joined(w)) /\ InLine(w, Joined(w))
           /\ queue \subseteq Joined(w)
           /\ \A v \in Orders : Ahead(w, v, Joined(w)) => Ahead(w, v, queue)
<1>1. CASE InLine(w, queue)
  BY <1>1 DEF Joined
<1>2. CASE ~InLine(w, queue)
  <2> DEFINE line == Joined(w)
  <2>1. line = queue \cup ({v \in Orders : InLine(v, queue) \/ v = w} \X {w})
    BY <1>2 DEF Joined
  <2>2. line \subseteq Orders \X Orders /\ queue \subseteq line
    BY <2>1
  <2>3. \A v, x : <<v, x>> \in line <=> <<v, x>> \in queue \/ (x = w /\ v \in Orders /\ (InLine(v, queue) \/ v = w))
    BY <2>1
  <2> HIDE DEF line
  <2>4. \A v \in Orders : <<v, w>> \notin queue /\ <<w, v>> \notin queue
    BY <1>2 DEF InOrder
  <2>5. \A v : InLine(v, line) <=> InLine(v, queue) \/ v = w
    BY <2>3 DEF InLine
  <2>6. ASSUME NEW v \in Orders, NEW x \in Orders
        PROVE  Ahead(v, x, line) <=> Ahead(v, x, queue) \/ (x = w /\ v # w /\ InLine(v, queue))
    <3>1. <<v, x>> \in line <=> <<v, x>> \in queue \/ (x = w /\ (InLine(v, queue) \/ v = w))
      BY <2>3
    <3>2. CASE v = x
      BY <3>2 DEF Ahead
    <3>3. CASE v # x
      BY <3>1, <3>3 DEF Ahead
    <3> QED
      BY <3>2, <3>3
  <2>7. ASSUME NEW v \in Orders, NEW x \in Orders
        PROVE  /\ <<v, x>> \in line => InLine(v, line) /\ InLine(x, line) /\ ~Ahead(x, v, line)
               /\ InLine(v, line) /\ InLine(x, line) => <<v, x>> \in line \/ <<x, v>> \in line
               /\ \A y \in Orders : Ahead(v, x, line) /\ Ahead(x, y, line) => Ahead(v, y, line)
    <3>1. /\ <<v, x>> \in queue => InLine(v, queue) /\ InLine(x, queue) /\ ~Ahead(x, v, queue)
          /\ InLine(v, queue) /\ InLine(x, queue) => <<v, x>> \in queue \/ <<x, v>> \in queue
          /\ \A y \in Orders : Ahead(v, x, queue) /\ Ahead(x, y, queue) => Ahead(v, y, queue)
      BY DEF InOrder
    <3>2. <<v, x>> \in line => InLine(v, line) /\ InLine(x, line) /\ ~Ahead(x, v, line)
      BY <1>2, <2>3, <2>4, <2>5, <2>6, <3>1 DEF Ahead
    <3>3. InLine(v, line) /\ InLine(x, line) => <<v, x>> \in line \/ <<x, v>> \in line
      BY <2>3, <2>5, <3>1
    <3>4. ASSUME NEW y \in Orders, Ahead(v, x, line), Ahead(x, y, line) PROVE Ahead(v, y, line)
      <4>1. x # w
        BY <2>4, <2>6, <3>4, <1>2 DEF Ahead
      <4>2. Ahead(v, x, queue) /\ InLine(v, queue)
        BY <2>6, <3>1, <3>4, <4>1 DEF Ahead
      <4> QED
        BY <1>2, <2>6, <3>1, <3>4, <4>2
    <3> QED
      BY <3>2, <3>3, <3>4
  <2>8. InOrder(line)
    BY <2>7 DEF InOrder
  <2>9. InLine(w, line)
    BY <2>5
  <2>10. \A v \in Orders : Ahead(w, v, line) => Ahead(w, v, queue)
    BY <2>6
  <2> QED
    BY <2>2, <2>8, <2>9, <2>10 DEF line
<1> QED
  BY <1>1, <1>2

\* Whatever a handler leaves in line is in order.
LEMMA LinesInOrder ==
    ASSUME LineTyped, NEW w \in Orders
    PROVE  /\ Without(queue, w) \subseteq Orders \X Orders /\ InOrder(Without(queue, w))
           /\ mergePlace(w) \subseteq Orders \X Orders /\ InOrder(mergePlace(w))
           /\ mergeLine(queue, "none") \subseteq Orders \X Orders /\ InOrder(mergeLine(queue, "none"))
<1>1. queue \subseteq Orders \X Orders /\ InOrder(queue)
  BY DEF LineTyped
<1>2. Joined(w) \subseteq Orders \X Orders /\ InOrder(Joined(w))
  BY <1>1, JoinedKeepsOrder
<1>3. \A line, joining : \E S : mergeLine(line, joining) = Only(line, S)
  BY DEF mergeLine
<1> QED
  BY <1>1, <1>2, <1>3, OnlyKeepsOrder DEF Without, mergePlace

-----------------------------------------------------------------------------
(* What the operations leave behind.                                       *)
LEMMA StepsOfTheTypes ==
    /\ Idle \in PlaceType /\ Idle.at = "idle" /\ Who = {"owner", "free", "user"} /\ RunEnds \subseteq RunStatuses
    /\ WaitKinds \cap {"none", "paused"} = {}
    /\ Merging \subseteq Steps /\ Updates \subseteq Steps /\ Merging \cap Updates = {}
    /\ Merging = {"read", "forge", "mark", "complete", "finish"}
    /\ Updates = {"intent", "leave", "admit", "turn", "again", "ready"}
BY DEF Idle, PlaceType, Steps, Who, RunEnds, RunStatuses, WaitKinds, Merging, Updates

\* A transition of a stored run stores a run.
LEMMA MovedOK ==
    ASSUME NEW r, RunOK(r), NEW to \in RunStatuses, NEW kind, NEW why \in Why,
           to = "waiting" => kind \in WaitKinds, to # "waiting" => kind = "none"
    PROVE  RunOK(Moved(r, to, kind, why)) /\ Moved(r, to, kind, why).status = to
<1> DEFINE moved == IF to \in RunEnds
                    THEN [r EXCEPT !.status = to, !.paused = FALSE, !.kind = "none", !.from = "none"]
                    ELSE IF r.paused
                    THEN [r EXCEPT !.status = to, !.kind = "paused", !.from = IF kind \in WaitKinds THEN kind ELSE @]
                    ELSE [r EXCEPT !.status = to, !.kind = kind, !.from = "none"]
<1>1. Moved(r, to, kind, why) = [moved EXCEPT !.why = why]
  BY DEF Moved, TransitionRun
<1>2. RunOK(moved) /\ moved.status = to
  <2>1. CASE to \in RunEnds
    BY <2>1 DEF RunOK, RunType, RunEnds, WaitKinds
  <2>2. CASE to \notin RunEnds /\ r.paused
    BY <2>2 DEF RunOK, RunType, RunEnds, WaitKinds
  <2>3. CASE to \notin RunEnds /\ ~r.paused
    BY <2>3 DEF RunOK, RunType, RunEnds, WaitKinds
  <2> QED
    BY <2>1, <2>2, <2>3
<1> HIDE DEF moved
<1> QED
  BY <1>1, <1>2 DEF RunOK, RunType

LEMMA PausedOK ==
    ASSUME NEW r, RunOK(r)
    PROVE  RunOK(Paused(r)) /\ RunOK(Unpaused(r))
<1>1. RunOK(Paused(r))
  BY DEF Paused, RunOK, RunType, WaitKinds, RunStatuses, RunEnds
<1>2. RunOK(Unpaused(r))
  <2>1. CASE r.status # "waiting"
    BY <2>1 DEF Unpaused, RunOK, RunType, WaitKinds
  <2>2. CASE r.status = "waiting" /\ r.from = "none"
    BY <2>2 DEF Unpaused, RunOK, RunType, WaitKinds
  <2>3. CASE r.status = "waiting" /\ r.from # "none"
    BY <2>3 DEF Unpaused, RunOK, RunType, WaitKinds
  <2> QED
    BY <2>1, <2>2, <2>3
<1> QED
  BY <1>1, <1>2
\* A stored run succeeds only by a merge.
RunsStay == RunsTyped' /\ \A v \in Orders : run'[v].status = "succeeded" => run[v].status = "succeeded"

LEMMA RunStored ==
    ASSUME RunsTyped, NEW w \in Orders, NEW r, RunOK(r), run' = [run EXCEPT ![w] = r]
    PROVE  /\ RunsTyped' /\ run'[w] = r /\ \A v \in Orders : v # w => run'[v] = run[v]
           /\ (r.status = "succeeded" => run[w].status = "succeeded") => RunsStay
<1>1. run' \in [Orders -> RunType] /\ run'[w] = r /\ \A v \in Orders \ {w} : run'[v] = run[v]
  BY DEF RunsTyped, RunOK
<1> QED
  BY <1>1 DEF RunsTyped, RunsStay

\* The updates are counted, and none is begun.
TurnStays(v) == upd'[v].turn = upd[v].turn /\ upd'[v].intent = upd[v].intent
UpdatesKept == UpdatesFit' /\ \A v \in Orders : TurnStays(v)

\* A failure is counted against the update that is under way.
LEMMA FailureFits ==
    ASSUME NEW u, UpdFits(u), u.turn > u.verified
    PROVE  UpdFits([u EXCEPT !.failed = @ \cup {u.turn}])
BY DEF UpdFits, UpdateType

LEMMA UpdateStored ==
    ASSUME UpdatesFit, NEW w \in Orders, NEW u, UpdFits(u), upd' = [upd EXCEPT ![w] = u]
    PROVE  /\ UpdatesFit' /\ \A v \in Orders : v # w => TurnStays(v)
           /\ upd'[w] = u
           /\ u.turn = upd[w].turn /\ u.intent = upd[w].intent => UpdatesKept
<1>1. upd' \in [Orders -> UpdateType] /\ upd'[w] = u /\ \A v \in Orders \ {w} : upd'[v] = upd[v]
  BY DEF UpdatesFit, UpdFits
<1> QED
  BY <1>1 DEF UpdatesFit, UpdatesKept, TurnStays
LEMMA WaitingStored ==
    ASSUME RunsTyped, LineTyped, UpdatesFit, NEW w \in Orders, NEW kind \in WaitKinds, NEW why \in Why,
           waitRun(w, kind, why)
    PROVE  RunsStay /\ LineTyped' /\ UpdatesKept
<1>1. RunsStay
  <2>1. RunOK(Moved(run[w], "waiting", kind, why)) /\ Moved(run[w], "waiting", kind, why).status = "waiting"
    BY MovedOK DEF RunsTyped, RunStatuses
  <2>2. run' = run \/ run' = [run EXCEPT ![w] = Moved(run[w], "waiting", kind, why)]
    BY DEF waitRun
  <2> QED
    BY <2>1, <2>2, RunStored DEF RunsTyped, RunsStay
<1>2. LineTyped'
  BY LinesInOrder DEF waitRun, LineTyped
<1>3. UpdatesKept
  <2>1. CASE upd' = upd
    BY <2>1 DEF UpdatesFit, UpdatesKept, TurnStays
  <2>2. CASE upd[w].turn > upd[w].verified /\ upd' = [upd EXCEPT ![w].failed = @ \cup {upd[w].turn}]
    <3>1. UpdFits([upd[w] EXCEPT !.failed = @ \cup {upd[w].turn}])
      BY <2>2, FailureFits DEF UpdatesFit
    <3>2. upd' = [upd EXCEPT ![w] = [upd[w] EXCEPT !.failed = @ \cup {upd[w].turn}]]
      BY <2>2
    <3>3. /\ [upd[w] EXCEPT !.failed = @ \cup {upd[w].turn}].turn = upd[w].turn
          /\ [upd[w] EXCEPT !.failed = @ \cup {upd[w].turn}].intent = upd[w].intent
      BY DEF UpdatesFit, UpdFits, UpdateType
    <3> QED
      BY <3>1, <3>2, <3>3, UpdateStored
  <2> QED
    BY <2>1, <2>2 DEF waitRun
<1> QED
  BY <1>1, <1>2, <1>3
\* One goroutine of one order moves, the others are where they were.
Moves(w, k, place) ==
    /\ place \in PlaceType /\ pc'[w][k] = place
    /\ \A l \in Who : l # k => pc'[w][l] = pc[w][l]
    /\ \A v \in Orders : v # w => pc'[v] = pc[v]

LEMMA PlaceMoves ==
    ASSUME PlacesTyped, NEW w \in Orders, NEW k \in Who, NEW place \in PlaceType,
           pc' = [pc EXCEPT ![w][k] = place]
    PROVE  PlacesTyped' /\ Moves(w, k, place)
BY DEF PlacesTyped, Moves

LEMMA GoneTo ==
    ASSUME NEW p \in PlaceType, NEW step \in Steps
    PROVE  LET q == [p EXCEPT !.at = step]
           IN  /\ q \in PlaceType /\ q.at = step /\ q.quiet = p.quiet /\ q.saw = p.saw /\ q.was = p.was
               /\ q.passed = p.passed /\ q.commit = p.commit /\ q.onto = p.onto
<1> DEFINE q == [p EXCEPT !.at = step]
           saws == RunStatuses \cup {"none", "other", "behind"}
           states == Features \cup {"none"}
           mains == Nat \cup {-1}
<1>1. PlaceType = [at : Steps, quiet : BOOLEAN, saw : saws, was : states, passed : Nat, commit : Nat, onto : mains]
  BY DEF PlaceType
<1> HIDE DEF saws, states, mains
<1> QED
  BY <1>1

LEMMA IdleAt ==
    ASSUME NEW step \in Steps
    PROVE  /\ [Idle EXCEPT !.at = step] \in PlaceType /\ [Idle EXCEPT !.at = step].at = step
           /\ [Idle EXCEPT !.at = step, !.quiet = TRUE] \in PlaceType
           /\ [Idle EXCEPT !.at = step, !.quiet = TRUE].at = step
BY DEF Idle, PlaceType

LEMMA GotoMoves ==
    ASSUME PlacesTyped, NEW w \in Orders, NEW k \in Who, NEW step \in Steps, Goto(w, k, step)
    PROVE  PlacesTyped' /\ Moves(w, k, [pc[w][k] EXCEPT !.at = step])
<1>1. [pc[w][k] EXCEPT !.at = step] \in PlaceType
  BY GoneTo DEF PlacesTyped
<1>2. pc' = [pc EXCEPT ![w][k] = [pc[w][k] EXCEPT !.at = step]]
  BY DEF Goto
<1> QED
  BY <1>1, <1>2, PlaceMoves

LEMMA EndMoves ==
    ASSUME PlacesTyped, NEW w \in Orders, NEW k \in Who, End(w, k)
    PROVE  PlacesTyped' /\ Moves(w, k, Idle)
BY StepsOfTheTypes, PlaceMoves DEF End

-----------------------------------------------------------------------------
(* What a step leaves of the invariant.                                    *)

\* A job that passed is not made again.
JobsStay == JobsTyped' /\ \A v \in Orders : Passed(v) => Passed(v)'

\* What is not written is as it was.
LEMMA Unwritten ==
    ASSUME IInv
    PROVE  /\ RunsTyped /\ LineTyped /\ PlacesTyped /\ UpdatesFit /\ JobsTyped /\ RowsTyped
           /\ UNCHANGED run => RunsTyped' /\ RunsStay
           /\ UNCHANGED queue => LineTyped'
           /\ UNCHANGED pc => PlacesTyped'
           /\ UNCHANGED upd => UpdatesKept /\ UpdatesFit'
           /\ UNCHANGED <<job, ws>> => JobsStay
BY DEF IInv, RunsTyped, LineTyped, PlacesTyped, UpdatesFit, UpdatesKept, TurnStays, RunsStay, JobsStay, JobsTyped, Passed

\* Whoever holds mergeMu, the merges of another order do not.
HoldsNoOther(w) == mergeMu' = mergeMu \/ \A v \in Orders, l \in Who : v # w => mergeMu # <<v, l>>

\* An order whose rows a step leaves: its goroutines may move.
LEMMA OrderStays ==
    ASSUME NEW v \in Orders, OrderFits(v), validated' = validated,
           feature'[v] = feature[v], ws'[v] = ws[v], v \in late' <=> v \in late, Passed(v) => Passed(v)',
           run'[v].status = "succeeded" => run[v].status = "succeeded",
           \A l \in Who : \/ MergeFits(v, l)'
                          \/ pc'[v][l] = pc[v][l] /\ (mergeMu' = mergeMu \/ mergeMu # <<v, l>>),
           Updating(v)' => Updating(v) \/ ws[v].merged = 0 \/ v \in late,
           Begun(v)'
    PROVE  OrderFits(v)'
<1>1. ForgedFits(v)' /\ InTimeFits(v)'
  BY DEF OrderFits, ForgedFits, InTimeFits
<1>2. ASSUME NEW l \in Who PROVE MergeFits(v, l)'
  <2>1. MergeFits(v, l)
    BY DEF OrderFits
  <2>2. CASE pc'[v][l] = pc[v][l] /\ (mergeMu' = mergeMu \/ mergeMu # <<v, l>>)
    <3>1. CASE pc[v][l].at \notin Merging
      BY <2>2, <3>1 DEF MergeFits
    <3>2. CASE pc[v][l].at \in Merging
      BY <2>1, <2>2, <3>2 DEF MergeFits, CommitFits
    <3> QED
      BY <3>1, <3>2
  <2> QED
    BY <2>2
<1> QED
  BY <1>1, <1>2 DEF OrderFits

\* A step that writes the rows of one order only.
LEMMA RowStep ==
    ASSUME IInv, NEW w \in Orders, PlacesTyped', RunsTyped', LineTyped', UpdatesFit', JobsTyped', RowsTyped',
           main' = Cardinality(Forged'), HoldsNoOther(w), OrderFits(w)', validated' = validated,
           \A v \in Orders : v # w =>
             /\ feature'[v] = feature[v] /\ ws'[v] = ws[v] /\ (v \in late' <=> v \in late) /\ TurnStays(v)
             /\ pc'[v] = pc[v] /\ (Passed(v) => Passed(v)')
             /\ run'[v].status = "succeeded" => run[v].status = "succeeded"
    PROVE  IInv'
<1>1. ASSUME NEW v \in Orders, v # w PROVE OrderFits(v)'
  <2>1. OrderFits(v) /\ Begun(v)
    BY DEF IInv, OrderFits
  <2>2. Begun(v)'
    BY <1>1, <2>1 DEF Begun, TurnStays
  <2>3. Updating(v)' => Updating(v)
    BY <1>1 DEF Updating
  <2>4. \A l \in Who : pc'[v][l] = pc[v][l] /\ (mergeMu' = mergeMu \/ mergeMu # <<v, l>>)
    BY <1>1 DEF HoldsNoOther
  <2> QED
    BY <1>1, <2>1, <2>2, <2>3, <2>4, OrderStays
<1> QED
  BY <1>1 DEF IInv

\* A step that writes neither work orders nor workspaces.
LEMMA ControlStep ==
    ASSUME IInv, NEW w \in Orders, PlacesTyped', RunsStay, LineTyped', UpdatesFit', JobsStay,
           UNCHANGED <<feature, main, ws, validated, late>>, HoldsNoOther(w),
           \A v \in Orders : v # w => pc'[v] = pc[v] /\ TurnStays(v),
           \A l \in Who : \/ MergeFits(w, l)'
                          \/ pc'[w][l] = pc[w][l] /\ (mergeMu' = mergeMu \/ mergeMu # <<w, l>>),
           Updating(w)' => Updating(w) \/ ws[w].merged = 0 \/ w \in late,
           Begun(w)'
    PROVE  IInv'
<1>1. RowsTyped' /\ main' = Cardinality(Forged')
  BY DEF IInv, RowsTyped, Forged
<1>2. OrderFits(w)'
  <2>1. OrderFits(w)
    BY DEF IInv
  <2> QED
    BY <2>1, OrderStays DEF RunsStay, JobsStay
<1>3. \A v \in Orders : v # w =>
        /\ feature'[v] = feature[v] /\ ws'[v] = ws[v] /\ (v \in late' <=> v \in late) /\ TurnStays(v)
        /\ pc'[v] = pc[v] /\ (Passed(v) => Passed(v)')
        /\ run'[v].status = "succeeded" => run[v].status = "succeeded"
  BY DEF RunsStay, JobsStay
<1> QED
  BY <1>1, <1>2, <1>3, RowStep DEF RunsStay, JobsStay

\* The same of one goroutine.
LEMMA PlaceStep ==
    ASSUME IInv, NEW w \in Orders, NEW k \in Who, NEW place, Moves(w, k, place), PlacesTyped',
           RunsStay, LineTyped', UpdatesKept, JobsStay, UNCHANGED <<feature, main, ws, validated, late>>,
           mergeMu' = mergeMu \/ mergeMu \in {NoOne, <<w, k>>},
           MergeFits(w, k)', place.at \notin Updates
    PROVE  IInv'
<1>1. UpdatesFit' /\ (\A v \in Orders : v # w => pc'[v] = pc[v] /\ TurnStays(v)) /\ TurnStays(w)
  BY DEF Moves, UpdatesKept
<1>2. HoldsNoOther(w)
  BY MergeAssumption DEF HoldsNoOther, NoOne
<1>3. ASSUME NEW l \in Who, l # k PROVE pc'[w][l] = pc[w][l] /\ (mergeMu' = mergeMu \/ mergeMu # <<w, l>>)
  BY <1>3, MergeAssumption DEF Moves, NoOne
<1>4. pc'[w]["owner"].at \in Updates => pc'[w]["owner"] = pc[w]["owner"]
  BY StepsOfTheTypes DEF Moves
<1>5. Updating(w)' => Updating(w)
  BY <1>4 DEF Updating
<1>6. Begun(w)'
  <2>1. Begun(w) /\ {"leave", "admit", "turn", "again"} \subseteq Updates
    BY StepsOfTheTypes DEF IInv, OrderFits
  <2> QED
    BY <1>1, <1>4, <2>1 DEF Begun, TurnStays
<1> QED
  BY <1>1, <1>2, <1>3, <1>5, <1>6, ControlStep

\* A goroutine that neither merges nor updates after the step.
LEMMA PlainStep ==
    ASSUME IInv, NEW w \in Orders, NEW k \in Who, NEW place \in PlaceType, pc' = [pc EXCEPT ![w][k] = place],
           place.at \notin Merging \cup Updates, RunsStay, LineTyped', UpdatesKept, JobsStay,
           UNCHANGED <<feature, main, ws, validated, late>>,
           mergeMu' = mergeMu \/ mergeMu \in {NoOne, <<w, k>>}
    PROVE  IInv'
<1>1. PlacesTyped' /\ Moves(w, k, place)
  BY PlaceMoves DEF IInv
<1>2. MergeFits(w, k)'
  BY <1>1 DEF MergeFits, Moves
<1> QED
  BY <1>1, <1>2, PlaceStep

LEMMA EndStep ==
    ASSUME IInv, NEW w \in Orders, NEW k \in Who, End(w, k), RunsStay, LineTyped', UpdatesKept, JobsStay,
           UNCHANGED <<feature, main, ws, validated, late>>,
           mergeMu' = mergeMu \/ mergeMu \in {NoOne, <<w, k>>}
    PROVE  IInv'
BY StepsOfTheTypes, PlainStep DEF End

LEMMA GotoStep ==
    ASSUME IInv, NEW w \in Orders, NEW k \in Who, NEW step \in Steps \ (Merging \cup Updates), Goto(w, k, step),
           RunsStay, LineTyped', UpdatesKept, JobsStay, UNCHANGED <<feature, main, ws, validated, late, mergeMu>>
    PROVE  IInv'
<1> DEFINE place == [pc[w][k] EXCEPT !.at = step]
<1>1. place \in PlaceType /\ place.at = step
  BY GoneTo DEF IInv, PlacesTyped
<1>2. pc' = [pc EXCEPT ![w][k] = place]
  BY DEF Goto
<1> HIDE DEF place
<1> QED
  BY <1>1, <1>2, PlainStep

\* A step in which nobody moves.
LEMMA NobodyMoves ==
    ASSUME IInv, NEW w \in Orders, UNCHANGED pc, RunsStay, LineTyped', UpdatesKept, JobsStay,
           UNCHANGED <<feature, main, ws, validated, late, mergeMu>>
    PROVE  IInv'
<1>1. PlacesTyped' /\ UpdatesFit' /\ (\A v \in Orders : v # w => pc'[v] = pc[v] /\ TurnStays(v)) /\ TurnStays(w)
  BY Unwritten DEF UpdatesKept
<1>2. HoldsNoOther(w) /\ (Updating(w)' => Updating(w))
  BY DEF HoldsNoOther, Updating
<1>3. Begun(w)'
  BY <1>1 DEF IInv, OrderFits, Begun, TurnStays
<1> QED
  BY <1>1, <1>2, <1>3, ControlStep

LEMMA WaitKindsAndWhys ==
    /\ {"phase_checkpoint", "blocker", "merge_gate"} \subseteq WaitKinds
    /\ {"queue", "validation", "passed", "ready", "behind", "blocked", "boundary", "none"} = Why
    /\ {"running", "waiting", "succeeded"} \subseteq RunStatuses
    /\ {"idle", "gate", "place", "merge", "refused", "update", "validated", "recover"} = Steps \ (Merging \cup Updates)
BY DEF WaitKinds, Why, RunStatuses, RunEnds, Steps, Merging, Updates

-----------------------------------------------------------------------------
(* The invariant is kept, action by action.                                *)

LEMMA JobMade ==
    ASSUME JobsTyped, RowsTyped, NEW w \in Orders, job' = EnsureJob(w), UNCHANGED ws
    PROVE  JobsStay
<1>1. [commit |-> ws[w].approved, status |-> "pending"] \in JobType
  BY DEF RowsTyped, JobType, WorkspaceType
<1>2. job' \in [Orders -> JobType] /\ \A v \in Orders : v # w => job'[v] = job[v]
  BY <1>1 DEF JobsTyped, EnsureJob
<1>3. Passed(w) => job'[w] = job[w]
  BY DEF EnsureJob, Passed
<1> QED
  BY <1>2, <1>3 DEF JobsStay, JobsTyped, Passed

\* A goroutine that is refused is out of the merge.
LEMMA RefuseStep ==
    ASSUME IInv, NEW w \in Orders, NEW k \in Who, NEW why \in {"other", "behind"}, Refuse(w, k, why),
           mergeMu \in {NoOne, <<w, k>>}, RunsStay, LineTyped', UpdatesKept, JobsStay,
           UNCHANGED <<feature, main, ws, validated, late>>
    PROVE  IInv'
<1> DEFINE place == [Idle EXCEPT !.at = "refused", !.quiet = pc[w][k].quiet, !.saw = why]
<1>1. place \in PlaceType /\ place.at = "refused"
  <2>1. pc[w][k] \in PlaceType
    BY DEF IInv, PlacesTyped
  <2>2. pc[w][k].quiet \in BOOLEAN
    BY <2>1 DEF PlaceType
  <2> QED
    BY <2>2 DEF PlaceType, Idle, Steps
<1>2. pc' = [pc EXCEPT ![w][k] = place]
  BY DEF Refuse
<1>3. "refused" \notin Merging \cup Updates
  BY DEF Merging, Updates
<1> HIDE DEF place
<1> QED
  BY <1>1, <1>2, <1>3, PlainStep

LEMMA EnterMergeGateKeeps ==
    ASSUME IInv, NEW w \in Orders, EnterMergeGate(w)
    PROVE  IInv'
<1>1. "owner" \in Who /\ UNCHANGED <<feature, main, ws, validated, late, mergeMu>>
  BY DEF EnterMergeGate, Who
<1>2. CASE waitRun(w, "phase_checkpoint", "boundary") /\ End(w, "owner") /\ UNCHANGED job
  BY <1>1, <1>2, Unwritten, WaitKindsAndWhys, WaitingStored, EndStep
<1>3. CASE job' = EnsureJob(w) /\ waitRun(w, "merge_gate", "validation") /\ End(w, "owner")
  BY <1>1, <1>3, Unwritten, WaitKindsAndWhys, WaitingStored, JobMade, EndStep
<1>4. CASE Goto(w, "owner", "place") /\ UNCHANGED <<run, queue, upd, job>>
  BY <1>1, <1>4, Unwritten, WaitKindsAndWhys, GotoStep
<1>5. CASE waitRun(w, "merge_gate", "ready") /\ End(w, "owner") /\ UNCHANGED job
  BY <1>1, <1>5, Unwritten, WaitKindsAndWhys, WaitingStored, EndStep
<1> QED
  BY <1>2, <1>3, <1>4, <1>5 DEF EnterMergeGate

\* A run that waits is stored, or an ended one stays.
LEMMA WaitsNow ==
    ASSUME RunsTyped, NEW w \in Orders, NEW kind \in WaitKinds, NEW why \in Why,
           run' = [run EXCEPT ![w] = IF Ended(w) THEN @ ELSE Moved(@, "waiting", kind, why)]
    PROVE  RunsStay
<1>1. RunOK(Moved(run[w], "waiting", kind, why)) /\ Moved(run[w], "waiting", kind, why).status = "waiting"
  BY WaitKindsAndWhys, MovedOK DEF RunsTyped
<1>2. run' = run \/ run' = [run EXCEPT ![w] = Moved(run[w], "waiting", kind, why)]
  BY DEF RunsTyped
<1> QED
  BY <1>1, <1>2, RunStored DEF RunsTyped, RunsStay

LEMMA TakePlaceKeeps ==
    ASSUME IInv, NEW w \in Orders, NEW k \in Who, TakePlace(w, k)
    PROVE  IInv'
<1>1. UNCHANGED <<feature, main, ws, job, validated, late, mergeMu>> /\ UNCHANGED upd
  BY DEF TakePlace
<1>2. CASE End(w, k) /\ UNCHANGED <<run, queue>>
  BY <1>1, <1>2, Unwritten, EndStep
<1>3. CASE queue' = mergePlace(w) /\ Goto(w, k, "merge") /\ UNCHANGED run
  <2>1. LineTyped'
    BY <1>3, Unwritten, LinesInOrder DEF LineTyped
  <2> QED
    BY <1>1, <1>3, <2>1, Unwritten, WaitKindsAndWhys, GotoStep
<1>4. CASE /\ queue' = mergePlace(w) /\ End(w, k)
           /\ run' = IF Ended(w) THEN run ELSE [run EXCEPT ![w] = Moved(@, "waiting", "merge_gate", "queue")]
  <2>1. run' = [run EXCEPT ![w] = IF Ended(w) THEN @ ELSE Moved(@, "waiting", "merge_gate", "queue")]
    BY <1>4, Unwritten DEF RunsTyped
  <2>2. RunsStay
    BY <2>1, Unwritten, WaitKindsAndWhys, WaitsNow
  <2>3. LineTyped'
    BY <1>4, Unwritten, LinesInOrder DEF LineTyped
  <2> QED
    BY <1>1, <1>4, <2>2, <2>3, Unwritten, EndStep
<1> QED
  BY <1>2, <1>3, <1>4 DEF TakePlace

LEMMA BeginMergeKeeps ==
    ASSUME IInv, NEW w \in Orders, NEW k \in Who, BeginMerge(w, k)
    PROVE  IInv'
<1>1. UNCHANGED <<feature, main, ws, job, validated, late, run, queue, upd>> /\ mergeMu = NoOne
  BY DEF BeginMerge
<1>2. RunsStay /\ LineTyped' /\ UpdatesKept /\ JobsStay
  BY <1>1, Unwritten
<1>3. CASE End(w, k) /\ UNCHANGED mergeMu
  BY <1>1, <1>2, <1>3, EndStep
<1>4. CASE /\ MayMerge(w) /\ mergeMu' = <<w, k>>
           /\ pc' = [pc EXCEPT ![w][k] = [@ EXCEPT !.at = "read", !.saw = run[w].status, !.was = feature[w],
                                                   !.passed = ws[w].approved]]
  <2> DEFINE place == [pc[w][k] EXCEPT !.at = "read", !.saw = run[w].status, !.was = feature[w],
                                       !.passed = ws[w].approved]
  <2>1. /\ place \in PlaceType /\ place.at = "read" /\ place.was = feature[w] /\ place.passed = ws[w].approved
    <3>1. pc[w][k] \in PlaceType /\ run[w].status \in RunStatuses /\ feature[w] \in Features /\ ws[w].approved \in Nat
      BY DEF IInv, PlacesTyped, RunsTyped, RunType, RowsTyped, WorkspaceType
    <3>2. "read" \in Steps
      BY DEF Steps
    <3> QED
      BY <3>1, <3>2 DEF PlaceType
  <2>2. pc' = [pc EXCEPT ![w][k] = place]
    BY <1>4
  <2> HIDE DEF place
  <2>3. PlacesTyped' /\ Moves(w, k, place)
    BY <2>1, <2>2, Unwritten, PlaceMoves
  <2>4. MergeFits(w, k)'
    <3>1. ws[w].approved # 0 /\ (validated => Passed(w))
      BY <1>4 DEF MayMerge, RequirePassed
    <3>2. CommitFits(w, ws[w].approved)
      BY <3>1 DEF CommitFits, IInv, RowsTyped, WsFits, WorkspaceType
    <3>3. feature[w] \in Features
      BY DEF IInv, RowsTyped
    <3>4. ws[w].merged # 0 /\ w \notin late => feature[w] # "reviewing"
      BY DEF IInv, OrderFits, InTimeFits
    <3>5. feature[w] # "none"
      BY <3>3 DEF Features
    <3> QED
      BY <1>1, <1>4, <2>1, <2>3, <3>1, <3>2, <3>4, <3>5 DEF MergeFits, Moves, CommitFits, Passed
  <2>5. place.at \notin Updates
    BY <2>1 DEF Updates
  <2> QED
    BY <1>1, <1>2, <2>3, <2>4, <2>5, PlaceStep
<1>5. CASE Refuse(w, k, "other")
  BY <1>1, <1>2, <1>5, RefuseStep
<1> QED
  BY <1>3, <1>4, <1>5 DEF BeginMerge

LEMMA ReadApprovedKeeps ==
    ASSUME IInv, NEW w \in Orders, NEW k \in Who, ReadApproved(w, k)
    PROVE  IInv'
<1>1. UNCHANGED <<feature, main, ws, job, validated, late, run, queue, upd>> /\ pc[w][k].at = "read"
  BY DEF ReadApproved, At
<1>2. RunsStay /\ LineTyped' /\ UpdatesKept /\ JobsStay /\ PlacesTyped /\ pc[w][k] \in PlaceType
  BY <1>1, Unwritten DEF PlacesTyped
<1>3. MergeFits(w, k) /\ mergeMu = <<w, k>>
  BY <1>1 DEF IInv, OrderFits, MergeFits, Merging
<1>4. CASE ws[w].merged # 0 /\ Goto(w, k, "complete") /\ UNCHANGED mergeMu
  <2> DEFINE place == [pc[w][k] EXCEPT !.at = "complete"]
  <2>1. place \in PlaceType /\ place.at = "complete" /\ place.was = pc[w][k].was
    BY <1>2, GoneTo DEF Steps
  <2>2. pc' = [pc EXCEPT ![w][k] = place]
    BY <1>4 DEF Goto
  <2> HIDE DEF place
  <2>3. PlacesTyped' /\ Moves(w, k, place)
    BY <1>2, <2>1, <2>2, PlaceMoves
  <2>4. MergeFits(w, k)' /\ place.at \notin Updates
    BY <1>1, <1>3, <1>4, <2>1, <2>3 DEF MergeFits, Moves, Merging, Choosing, Updates
  <2> QED
    BY <1>1, <1>2, <1>4, <2>3, <2>4, PlaceStep
<1>5. CASE /\ ws[w].approved # 0 /\ UNCHANGED mergeMu
           /\ pc' = [pc EXCEPT ![w][k].at = "forge", ![w][k].commit = ws[w].approved]
  <2> DEFINE place == [pc[w][k] EXCEPT !.at = "forge", !.commit = ws[w].approved]
  <2>1. /\ place \in PlaceType /\ place.at = "forge" /\ place.was = pc[w][k].was /\ place.passed = pc[w][k].passed
        /\ place.commit = ws[w].approved
    <3>1. ws[w].approved \in Nat /\ "forge" \in Steps
      BY DEF IInv, RowsTyped, WorkspaceType, Steps
    <3> QED
      BY <1>2, <3>1 DEF PlaceType
  <2>2. pc' = [pc EXCEPT ![w][k] = place]
    BY <1>2, <1>5 DEF PlacesTyped, PlaceType
  <2> HIDE DEF place
  <2>3. PlacesTyped' /\ Moves(w, k, place)
    BY <1>2, <2>1, <2>2, PlaceMoves
  <2>4. CommitFits(w, ws[w].approved)
    BY <1>5 DEF CommitFits, IInv, RowsTyped, WsFits, WorkspaceType
  <2>5. MergeFits(w, k)' /\ place.at \notin Updates
    BY <1>1, <1>3, <1>5, <2>1, <2>3, <2>4 DEF MergeFits, Moves, Merging, Choosing, Updates, CommitFits, Passed
  <2> QED
    BY <1>1, <1>2, <1>5, <2>3, <2>5, PlaceStep
<1>6. CASE Refuse(w, k, "other")
  BY <1>1, <1>2, <1>3, <1>6, RefuseStep
<1> QED
  BY <1>4, <1>5, <1>6 DEF ReadApproved

\* A goroutine that does not update after its step leaves an update to its owner.
LEMMA UpdatesMove ==
    ASSUME NEW w \in Orders, NEW k \in Who, NEW place, Moves(w, k, place), place.at \notin Updates,
           Begun(w), TurnStays(w), feature'[w] = "reviewing" => feature[w] = "reviewing"
    PROVE  Begun(w)' /\ (Updating(w)' => Updating(w))
<1>1. pc'[w]["owner"].at \in Updates => pc'[w]["owner"] = pc[w]["owner"]
  BY StepsOfTheTypes DEF Moves
<1>2. {"leave", "admit", "turn", "again"} \subseteq Updates
  BY DEF Updates
<1> QED
  BY <1>1, <1>2 DEF Begun, TurnStays, Updating

\* What the goroutine that holds mergeMu writes.
LEMMA HolderStep ==
    ASSUME IInv, NEW w \in Orders, NEW k \in Who, mergeMu = <<w, k>>,
           NEW place, Moves(w, k, place), PlacesTyped', place.at \notin Updates,
           RunsTyped', LineTyped', UpdatesKept, RowsTyped', main' = Cardinality(Forged'), UNCHANGED <<job, validated>>,
           \A v \in Orders : v # w =>
             /\ feature'[v] = feature[v] /\ ws'[v] = ws[v] /\ (v \in late' <=> v \in late)
             /\ run'[v].status = "succeeded" => run[v].status = "succeeded",
           feature'[w] = "reviewing" => feature[w] = "reviewing",
           ForgedFits(w)', InTimeFits(w)', MergeFits(w, k)'
    PROVE  IInv'
<1>1. Begun(w)'
  BY UpdatesMove DEF IInv, OrderFits, UpdatesKept
<1>2. ASSUME NEW l \in Who, l # k PROVE MergeFits(w, l)'
  <2>1. mergeMu # <<w, l>>
    BY <1>2
  <2>2. pc[w][l].at \notin Merging
    BY <2>1 DEF IInv, OrderFits, MergeFits
  <2> QED
    BY <1>2, <2>2 DEF MergeFits, Moves
<1>3. OrderFits(w)'
  BY <1>1, <1>2 DEF OrderFits
<1>4. HoldsNoOther(w)
  BY DEF HoldsNoOther
<1>5. \A v \in Orders : v # w => pc'[v] = pc[v] /\ TurnStays(v) /\ (Passed(v) => Passed(v)')
  BY DEF Moves, UpdatesKept, Passed
<1>6. JobsTyped' /\ UpdatesFit'
  BY Unwritten DEF JobsTyped, UpdatesKept
<1> QED
  BY <1>3, <1>4, <1>5, <1>6, RowStep

LEMMA FitsLater ==
    ASSUME NEW x, NEW m \in Nat, WsFits(x, m)
    PROVE  WsFits(x, m + 1)
BY DEF WsFits, WorkspaceType

\* Main moves when Forgejo merges an order, and then only.
LEMMA MainCounts ==
    ASSUME RowsTyped, main = Cardinality(Forged), NEW w \in Orders, ws[w].forged = 0, NEW x, x.forged # 0,
           ws' = [ws EXCEPT ![w] = x]
    PROVE  main + 1 = Cardinality(Forged')
<1>1. Forged' = Forged \cup {w} /\ w \notin Forged
  BY DEF Forged, RowsTyped
<1>2. IsFiniteSet(Forged)
  BY MergeAssumption, FS_Subset DEF Forged
<1> QED
  BY <1>1, <1>2, FS_AddElement

\* Forgejo merges the branch that the merge has read, and it was approved.
LEMMA ForgejoFits ==
    ASSUME IInv, NEW w \in Orders, NEW k \in Who, pc[w][k].at = "forge", ForgejoMerges(w, pc[w][k].commit),
           UNCHANGED <<feature, run, validated>>
    PROVE  /\ RowsTyped' /\ main' = Cardinality(Forged') /\ \A v \in Orders : v # w => ws'[v] = ws[v]
           /\ ForgedFits(w)' /\ ws'[w].forged = pc[w][k].commit /\ ws'[w].approved = ws[w].approved
           /\ ws'[w].head = ws[w].head /\ ws'[w].merged = ws[w].merged
<1> DEFINE c == pc[w][k].commit
           x == [ws[w] EXCEPT !.forged = c]
<1>1. c \in Nat /\ c # 0 /\ ws[w].head = c /\ ws[w].approved = c
  <2>1. CommitFits(w, c)
    BY DEF IInv, OrderFits, MergeFits, Merging
  <2>2. c \in Nat
    BY DEF IInv, PlacesTyped, PlaceType
  <2> QED
    BY <2>1, <2>2 DEF CommitFits, ForgejoMerges
<1>2. RowsTyped /\ ForgedFits(w) /\ WsFits(ws[w], main) /\ main \in Nat
  BY DEF IInv, OrderFits, RowsTyped
<1> HIDE DEF c
<1>3. CASE ws[w].forged = 0
  <2>1. ws' = [ws EXCEPT ![w] = x] /\ main' = main + 1
    BY <1>3 DEF ForgejoMerges, c
  <2>2. /\ x.forged = c /\ x.approved = ws[w].approved /\ x.head = ws[w].head /\ x.merged = ws[w].merged
        /\ WsFits(x, main)
    BY <1>1, <1>2 DEF WsFits, WorkspaceType
  <2> HIDE DEF x
  <2>3. ws'[w] = x /\ \A v \in Orders : v # w => ws'[v] = ws[v]
    BY <1>2, <2>1 DEF RowsTyped
  <2>4. RowsTyped'
    <3>1. ws' \in [Orders -> WorkspaceType] /\ main' \in Nat
      BY <1>2, <2>1, <2>2 DEF RowsTyped, WsFits
    <3>2. \A v \in Orders : WsFits(ws'[v], main + 1)
      BY <1>2, <2>2, <2>3, FitsLater DEF RowsTyped
    <3> QED
      BY <1>2, <2>1, <3>1, <3>2 DEF RowsTyped
  <2>5. main' = Cardinality(Forged')
    BY <1>1, <1>2, <1>3, <2>1, <2>2, MainCounts DEF IInv
  <2>6. ForgedFits(w)'
    <3>1. ws[w].merged = 0
      BY <1>2, <1>3 DEF ForgedFits
    <3> QED
      BY <1>1, <1>2, <2>2, <2>3, <3>1 DEF ForgedFits
  <2> QED
    BY <2>2, <2>3, <2>4, <2>5, <2>6 DEF c
<1>4. CASE ws[w].forged # 0
  <2>1. ws' = ws /\ main' = main
    BY <1>4 DEF ForgejoMerges
  <2> QED
    BY <1>1, <1>2, <1>4, <2>1 DEF IInv, RowsTyped, Forged, ForgedFits, c
<1> QED
  BY <1>3, <1>4

LEMMA AskForgejoKeeps ==
    ASSUME IInv, NEW w \in Orders, NEW k \in Who, AskForgejo(w, k)
    PROVE  IInv'
<1>1. UNCHANGED <<feature, job, validated, late, run, queue, upd>> /\ pc[w][k].at = "forge"
  BY DEF AskForgejo, At
<1>2. RunsTyped' /\ RunsStay /\ LineTyped' /\ UpdatesKept /\ PlacesTyped /\ pc[w][k] \in PlaceType
  BY <1>1, Unwritten DEF PlacesTyped
<1>3. MergeFits(w, k) /\ mergeMu = <<w, k>> /\ InTimeFits(w) /\ Begun(w)
  BY <1>1 DEF IInv, OrderFits, MergeFits, Merging
<1>4. ASSUME NEW place \in PlaceType, pc' = [pc EXCEPT ![w][k] = place], place.at \in {"mark", "refused"},
             ForgejoMerges(w, pc[w][k].commit),
             place.at = "mark" => /\ place.was = pc[w][k].was /\ place.passed = pc[w][k].passed
                                  /\ place.commit = pc[w][k].commit /\ mergeMu' = mergeMu
      PROVE  IInv'
  <2>1. PlacesTyped' /\ Moves(w, k, place)
    BY <1>2, <1>4, PlaceMoves
  <2>2. /\ RowsTyped' /\ main' = Cardinality(Forged') /\ \A v \in Orders : v # w => ws'[v] = ws[v]
        /\ ForgedFits(w)' /\ ws'[w].forged = pc[w][k].commit /\ ws'[w].approved = ws[w].approved
        /\ ws'[w].head = ws[w].head /\ ws'[w].merged = ws[w].merged
    BY <1>1, <1>4, ForgejoFits
  <2>3. place.at \notin Updates
    BY <1>4 DEF Updates
  <2>4. InTimeFits(w)'
    <3>1. Updating(w)' => Updating(w)
      BY <1>1, <1>2, <1>3, <2>1, <2>3, UpdatesMove DEF UpdatesKept
    <3> QED
      BY <1>1, <1>3, <2>2, <3>1 DEF InTimeFits, Passed
  <2>5. MergeFits(w, k)'
    BY <1>1, <1>3, <1>4, <2>1, <2>2 DEF MergeFits, Moves, Merging, Choosing, CommitFits, Passed
  <2> QED
    BY <1>1, <1>2, <1>3, <2>1, <2>2, <2>3, <2>4, <2>5, HolderStep
<1>5. CASE ForgejoMerges(w, pc[w][k].commit) /\ Goto(w, k, "mark") /\ UNCHANGED mergeMu
  <2> DEFINE place == [pc[w][k] EXCEPT !.at = "mark"]
  <2>1. /\ place \in PlaceType /\ place.at = "mark" /\ place.was = pc[w][k].was /\ place.passed = pc[w][k].passed
        /\ place.commit = pc[w][k].commit
    BY <1>2, GoneTo DEF Steps
  <2>2. pc' = [pc EXCEPT ![w][k] = place]
    BY <1>5 DEF Goto
  <2> HIDE DEF place
  <2> QED
    BY <1>4, <1>5, <2>1, <2>2
<1>6. CASE Refuse(w, k, "other") /\ ForgejoMerges(w, pc[w][k].commit)
  <2> DEFINE place == [Idle EXCEPT !.at = "refused", !.quiet = pc[w][k].quiet, !.saw = "other"]
  <2>1. place \in PlaceType /\ place.at = "refused"
    <3>1. pc[w][k].quiet \in BOOLEAN
      BY <1>2 DEF PlaceType
    <3> QED
      BY <3>1 DEF PlaceType, Idle, Steps
  <2>2. pc' = [pc EXCEPT ![w][k] = place]
    BY <1>6 DEF Refuse
  <2> HIDE DEF place
  <2> QED
    BY <1>4, <1>6, <2>1, <2>2
<1>7. CASE \E why \in {"behind", "other"} : Refuse(w, k, why) /\ UNCHANGED <<main, ws>>
  BY <1>1, <1>2, <1>3, <1>7, Unwritten, RefuseStep
<1> QED
  BY <1>5, <1>6, <1>7 DEF AskForgejo

LEMMA MarkMergedKeeps ==
    ASSUME IInv, NEW w \in Orders, NEW k \in Who, MarkMerged(w, k)
    PROVE  IInv'
<1>1. UNCHANGED <<feature, job, validated, run, queue, upd, main>> /\ pc[w][k].at = "mark"
  BY DEF MarkMerged, At
<1>2. RunsTyped' /\ RunsStay /\ LineTyped' /\ UpdatesKept /\ PlacesTyped /\ pc[w][k] \in PlaceType
  BY <1>1, Unwritten DEF PlacesTyped
<1>3. /\ MergeFits(w, k) /\ mergeMu = <<w, k>> /\ InTimeFits(w) /\ Begun(w) /\ ForgedFits(w) /\ RowsTyped
      /\ WsFits(ws[w], main) /\ main = Cardinality(Forged)
  BY <1>1 DEF IInv, OrderFits, MergeFits, Merging, RowsTyped
<1>4. CASE /\ ws[w].approved = pc[w][k].commit /\ ws' = [ws EXCEPT ![w].merged = pc[w][k].commit]
           /\ late' = (IF InTime(w, pc[w][k]) THEN late ELSE late \cup {w})
           /\ Goto(w, k, "complete") /\ UNCHANGED mergeMu
  <2> DEFINE place == [pc[w][k] EXCEPT !.at = "complete"]
             c == pc[w][k].commit
             x == [ws[w] EXCEPT !.merged = c]
  <2>1. place \in PlaceType /\ place.at = "complete" /\ place.was = pc[w][k].was
    BY <1>2, GoneTo DEF Steps
  <2>2. pc' = [pc EXCEPT ![w][k] = place]
    BY <1>4 DEF Goto
  <2> HIDE DEF place
  <2>3. PlacesTyped' /\ Moves(w, k, place) /\ place.at \notin Updates
    BY <1>2, <2>1, <2>2, PlaceMoves DEF Updates
  <2>4. c \in Nat /\ c # 0 /\ ws[w].forged = c /\ ws[w].approved = c /\ ws[w].head = c
    <3>1. c \in Nat /\ CommitFits(w, c) /\ ws[w].forged = c
      BY <1>1, <1>2, <1>3 DEF MergeFits, Merging, PlaceType
    <3> QED
      BY <1>3, <1>4, <3>1 DEF ForgedFits, CommitFits
  <2> HIDE DEF c
  <2>5. /\ WsFits(x, main) /\ x.merged = c /\ x.forged = c /\ x.approved = c /\ x.head = c
    BY <1>3, <2>4 DEF WsFits, WorkspaceType
  <2>6. ws' = [ws EXCEPT ![w] = x]
    BY <1>4 DEF c
  <2> HIDE DEF x
  <2>7. ws'[w] = x /\ \A v \in Orders : v # w => ws'[v] = ws[v]
    BY <1>3, <2>6 DEF RowsTyped
  <2>8. RowsTyped'
    <3>1. ws' \in [Orders -> WorkspaceType]
      BY <1>3, <2>5, <2>6 DEF RowsTyped, WsFits
    <3>2. \A v \in Orders : WsFits(ws'[v], main)
      BY <1>3, <2>5, <2>7 DEF RowsTyped
    <3> QED
      BY <1>1, <1>3, <3>1, <3>2 DEF RowsTyped
  <2>9. main' = Cardinality(Forged')
    <3>1. \A v \in Orders : ws'[v].forged = ws[v].forged
      BY <2>4, <2>5, <2>7
    <3>2. Forged' = Forged
      BY <3>1 DEF Forged
    <3> QED
      BY <1>1, <1>3, <3>2
  <2>10. ForgedFits(w)'
    BY <1>1, <1>3, <2>4, <2>5, <2>7 DEF ForgedFits
  <2>11. InTimeFits(w)' /\ MergeFits(w, k)'
    <3>1. CASE InTime(w, pc[w][k])
      <4>1. feature[w] = "ready_to_merge" /\ ~Updating(w) /\ pc[w][k].was = "ready_to_merge" /\ pc[w][k].passed = c
        BY <3>1 DEF InTime, c
      <4>2. validated => Passed(w)
        BY <1>1, <1>3, <2>4, <4>1 DEF MergeFits, Merging, Choosing
      <4>3. Updating(w)' => Updating(w)
        BY <1>1, <1>2, <1>3, <2>3, UpdatesMove DEF UpdatesKept
      <4>4. ~(run[w].status = "succeeded" /\ w \notin late)
        BY <1>3, <4>1 DEF ForgedFits, InTimeFits
      <4>5. late' = late
        BY <1>4, <3>1
      <4>6. InTimeFits(w)'
        BY <1>1, <2>4, <2>5, <2>7, <4>1, <4>2, <4>3, <4>4, <4>5 DEF InTimeFits, Passed
      <4>7. MergeFits(w, k)'
        BY <1>1, <1>3, <1>4, <2>1, <2>3, <2>4, <2>5, <2>7, <4>1 DEF MergeFits, Moves, Merging, Choosing
      <4> QED
        BY <4>6, <4>7
    <3>2. CASE ~InTime(w, pc[w][k])
      <4>1. w \in late'
        BY <1>4, <3>2
      <4> QED
        BY <1>1, <1>3, <1>4, <2>1, <2>3, <2>4, <2>5, <2>7, <4>1 DEF InTimeFits, MergeFits, Moves, Merging, Choosing
    <3> QED
      BY <3>1, <3>2
  <2>12. \A v \in Orders : v # w => (v \in late' <=> v \in late)
    BY <1>4
  <2> QED
    BY <1>1, <1>2, <1>3, <2>3, <2>7, <2>8, <2>9, <2>10, <2>11, <2>12, HolderStep
<1>5. CASE Refuse(w, k, "other") /\ UNCHANGED <<ws, late>>
  BY <1>1, <1>2, <1>3, <1>5, Unwritten, RefuseStep
<1> QED
  BY <1>4, <1>5 DEF MarkMerged

LEMMA CompleteFeatureKeeps ==
    ASSUME IInv, NEW w \in Orders, NEW k \in Who, CompleteFeature(w, k)
    PROVE  IInv'
<1>1. UNCHANGED <<main, ws, job, validated, run, queue, upd, late>> /\ pc[w][k].at = "complete"
  BY DEF CompleteFeature, At
<1>2. RunsTyped' /\ RunsStay /\ LineTyped' /\ UpdatesKept /\ JobsStay /\ PlacesTyped /\ pc[w][k] \in PlaceType
  BY <1>1, Unwritten DEF PlacesTyped
<1>3. /\ MergeFits(w, k) /\ mergeMu = <<w, k>> /\ InTimeFits(w) /\ ForgedFits(w) /\ Begun(w) /\ RowsTyped
      /\ ws[w].merged # 0 /\ main = Cardinality(Forged)
  BY <1>1 DEF IInv, OrderFits, MergeFits, Merging
<1> DEFINE place == [pc[w][k] EXCEPT !.at = "finish"]
<1>4. /\ place \in PlaceType /\ place.at = "finish" /\ place.was = pc[w][k].was
  BY <1>2, GoneTo DEF Steps
<1>5. Goto(w, k, "finish") => pc' = [pc EXCEPT ![w][k] = place]
  BY DEF Goto
<1> HIDE DEF place
<1>6. Goto(w, k, "finish") => PlacesTyped' /\ Moves(w, k, place)
  BY <1>2, <1>4, <1>5, PlaceMoves
<1>7. place.at \notin Updates
  BY <1>4 DEF Updates
<1>8. CASE pc[w][k].was # "ready_to_merge" /\ Goto(w, k, "finish") /\ UNCHANGED <<feature, mergeMu>>
  <2>1. w \notin late => pc[w][k].was = "completed" /\ feature[w] = "completed"
    <3>1. pc[w][k].was \in {"ready_to_merge", "reviewing", "completed"}
      BY <1>1, <1>2, <1>3 DEF MergeFits, Merging, PlaceType, Features
    <3> QED
      BY <1>1, <1>3, <1>8, <3>1 DEF MergeFits, Merging
  <2>2. MergeFits(w, k)'
    BY <1>1, <1>3, <1>4, <1>6, <1>8, <2>1 DEF MergeFits, Moves, Merging, Choosing
  <2> QED
    BY <1>1, <1>2, <1>3, <1>6, <1>7, <1>8, <2>2, PlaceStep
<1>9. CASE feature' = [feature EXCEPT ![w] = "completed"] /\ Goto(w, k, "finish") /\ UNCHANGED mergeMu
           /\ pc[w][k].was = "ready_to_merge"
  <2>1. feature' \in [Orders -> Features] /\ feature'[w] = "completed" /\ \A v \in Orders : v # w => feature'[v] = feature[v]
    BY <1>3, <1>9 DEF RowsTyped, Features
  <2>2. RowsTyped' /\ main' = Cardinality(Forged')
    BY <1>1, <1>3, <2>1 DEF RowsTyped, Forged
  <2>3. Updating(w)' => Updating(w)
    BY <1>2, <1>3, <1>6, <1>7, <1>9, <2>1, UpdatesMove DEF UpdatesKept
  <2>4. ForgedFits(w)' /\ InTimeFits(w)'
    BY <1>1, <1>3, <2>1, <2>3 DEF ForgedFits, InTimeFits, Passed
  <2>5. MergeFits(w, k)'
    BY <1>1, <1>3, <1>4, <1>6, <1>9, <2>1 DEF MergeFits, Moves, Merging, Choosing
  <2>6. \A v \in Orders : v # w =>
             /\ feature'[v] = feature[v] /\ ws'[v] = ws[v] /\ (v \in late' <=> v \in late)
             /\ run'[v].status = "succeeded" => run[v].status = "succeeded"
    BY <1>1, <2>1
  <2> QED
    BY <1>1, <1>2, <1>3, <1>6, <1>7, <1>9, <2>1, <2>2, <2>4, <2>5, <2>6, HolderStep
<1>10. CASE Refuse(w, k, "other") /\ UNCHANGED feature
  BY <1>1, <1>2, <1>3, <1>10, RefuseStep
<1> QED
  BY <1>8, <1>9, <1>10 DEF CompleteFeature

LEMMA FinishMergeKeeps ==
    ASSUME IInv, NEW w \in Orders, NEW k \in Who, FinishMerge(w, k)
    PROVE  IInv'
<1>1. UNCHANGED <<feature, main, ws, job, validated, upd, late>> /\ pc[w][k].at = "finish"
  BY DEF FinishMerge, At
<1>2. UpdatesKept /\ JobsStay /\ PlacesTyped /\ RunsTyped /\ LineTyped
  BY <1>1, Unwritten
<1>3. /\ MergeFits(w, k) /\ mergeMu = <<w, k>> /\ InTimeFits(w) /\ ForgedFits(w) /\ Begun(w) /\ RowsTyped
      /\ ws[w].merged # 0 /\ main = Cardinality(Forged)
  BY <1>1 DEF IInv, OrderFits, MergeFits, Merging
<1>4. CASE /\ run' = [run EXCEPT ![w] = Moved(@, "succeeded", "none", "none")]
           /\ queue' = Without(queue, w) /\ End(w, k)
  <2>1. RunOK(Moved(run[w], "succeeded", "none", "none"))
    BY <1>2, WaitKindsAndWhys, MovedOK DEF RunsTyped, Why
  <2>2. run' = [run EXCEPT ![w] = Moved(run[w], "succeeded", "none", "none")]
    BY <1>4
  <2>3. RunsTyped' /\ \A v \in Orders : v # w => run'[v] = run[v]
    BY <1>2, <2>1, <2>2, RunStored
  <2>4. LineTyped'
    BY <1>2, <1>4, LinesInOrder DEF LineTyped
  <2>5. PlacesTyped' /\ Moves(w, k, Idle) /\ Idle.at = "idle"
    BY <1>2, <1>4, EndMoves, StepsOfTheTypes
  <2>6. Idle.at \notin Updates /\ Idle.at \notin Merging
    BY <2>5 DEF Updates, Merging
  <2>7. RowsTyped' /\ main' = Cardinality(Forged')
    BY <1>1, <1>3 DEF RowsTyped, Forged
  <2>8. ForgedFits(w)' /\ InTimeFits(w)'
    <3>1. Updating(w)' => Updating(w)
      BY <1>1, <1>2, <1>3, <2>5, <2>6, UpdatesMove DEF UpdatesKept
    <3>2. w \notin late => feature[w] = "completed"
      BY <1>1, <1>3 DEF MergeFits, Merging
    <3> QED
      BY <1>1, <1>3, <3>1, <3>2 DEF ForgedFits, InTimeFits, Passed
  <2>9. MergeFits(w, k)'
    BY <2>5, <2>6 DEF MergeFits, Moves
  <2>10. \A v \in Orders : v # w =>
             /\ feature'[v] = feature[v] /\ ws'[v] = ws[v] /\ (v \in late' <=> v \in late)
             /\ run'[v].status = "succeeded" => run[v].status = "succeeded"
    BY <1>1, <2>3
  <2> QED
    BY <1>1, <1>2, <1>3, <2>3, <2>4, <2>5, <2>6, <2>7, <2>8, <2>9, <2>10, HolderStep
<1>5. CASE End(w, k) /\ UNCHANGED <<run, queue>>
  BY <1>1, <1>2, <1>3, <1>5, Unwritten, EndStep
<1>6. CASE Refuse(w, k, "other") /\ UNCHANGED <<run, queue>>
  BY <1>1, <1>2, <1>3, <1>6, Unwritten, RefuseStep
<1> QED
  BY <1>4, <1>5, <1>6 DEF FinishMerge

\* What Forgejo refuses again counts against the update that was verified.
LEMMA RefusalFits ==
    ASSUME UpdatesFit, NEW w \in Orders
    PROVE  /\ UpdFits([upd[w] EXCEPT !.failed = Failed(w)])
           /\ [upd[w] EXCEPT !.failed = Failed(w)].turn = upd[w].turn
           /\ [upd[w] EXCEPT !.failed = Failed(w)].intent = upd[w].intent
<1>1. UpdFits(upd[w])
  BY DEF UpdatesFit
<1>2. Failed(w) = upd[w].failed \/ (upd[w].verified > 0 /\ Failed(w) = upd[w].failed \cup {upd[w].verified})
  BY DEF Failed, RefusedAgain
<1> QED
  BY <1>1, <1>2 DEF UpdFits, UpdateType

LEMMA RefusedKeeps ==
    ASSUME IInv, NEW w \in Orders, NEW k \in Who, Refused(w, k)
    PROVE  IInv'
<1> DEFINE counted == [upd EXCEPT ![w].failed = Failed(w)]
<1>1. UNCHANGED <<feature, main, ws, job, validated, late, mergeMu>>
  BY DEF Refused
<1>2. upd' = counted => UpdatesKept
  <2>1. counted = [upd EXCEPT ![w] = [upd[w] EXCEPT !.failed = Failed(w)]]
    OBVIOUS
  <2> HIDE DEF counted
  <2> DEFINE u == [upd[w] EXCEPT !.failed = Failed(w)]
  <2>2. UpdFits(u) /\ u.turn = upd[w].turn /\ u.intent = upd[w].intent /\ counted = [upd EXCEPT ![w] = u] /\ UpdatesFit
    BY <2>1, RefusalFits, Unwritten
  <2> HIDE DEF u
  <2> QED
    BY <2>2, UpdateStored
<1>3. ASSUME NEW kind \in {"blocker", "phase_checkpoint"}, upd' = counted, End(w, k), queue' = Without(queue, w),
             run' = [run EXCEPT ![w] = IF Ended(w) THEN @ ELSE Moved(@, "waiting", kind, "behind")]
      PROVE  IInv'
  <2>1. RunsStay /\ LineTyped'
    BY <1>3, Unwritten, WaitKindsAndWhys, WaitsNow, LinesInOrder DEF LineTyped
  <2> HIDE DEF counted
  <2> QED
    BY <1>1, <1>2, <1>3, <2>1, Unwritten, EndStep
<1>4. CASE End(w, k) /\ UNCHANGED <<run, queue, upd>>
  BY <1>1, <1>4, Unwritten, EndStep
<1>5. CASE waitRun(w, "blocker", "blocked") /\ End(w, k)
  BY <1>1, <1>5, Unwritten, WaitKindsAndWhys, WaitingStored, EndStep
<1>6. CASE (upd' = upd \/ upd' = counted) /\ pc' = [pc EXCEPT ![w][k] = [Idle EXCEPT !.at = "update"]] /\ UNCHANGED <<run, queue>>
  <2>1. [Idle EXCEPT !.at = "update"] \in PlaceType /\ [Idle EXCEPT !.at = "update"].at = "update"
    BY IdleAt DEF Steps
  <2>2. "update" \notin Merging \cup Updates
    BY DEF Merging, Updates
  <2>3. UpdatesKept
    BY <1>2, <1>6, Unwritten
  <2> HIDE DEF counted
  <2> QED
    BY <1>1, <1>6, <2>1, <2>2, <2>3, Unwritten, PlainStep
<1> QED
  BY <1>3, <1>4, <1>5, <1>6 DEF Refused

-----------------------------------------------------------------------------
(* Updates. *)

LEMMA FailStep ==
    ASSUME IInv, NEW w \in Orders, NEW k \in Who, FailUpdate(w, k),
           UNCHANGED <<feature, main, ws, job, validated, late, mergeMu>>
    PROVE  IInv'
<1>1. CASE End(w, k) /\ UNCHANGED <<run, queue, upd>>
  BY <1>1, Unwritten, EndStep
<1>2. CASE End(w, k) /\ waitRun(w, "blocker", "behind")
  BY <1>2, Unwritten, WaitKindsAndWhys, WaitingStored, EndStep
<1> QED
  BY <1>1, <1>2 DEF FailUpdate

\* The owner of an update takes a step that writes no rows but its own.
LEMMA OwnerControl ==
    ASSUME IInv, NEW w \in Orders, NEW place, Moves(w, "owner", place), PlacesTyped', place.at \notin Merging,
           RunsStay, LineTyped', UpdatesFit', UNCHANGED <<feature, main, ws, job, validated, late, mergeMu>>,
           \A v \in Orders : v # w => TurnStays(v), Begun(w)', Updating(w)
    PROVE  IInv'
<1>1. pc'[w]["owner"] = place /\ (\A l \in Who : l # "owner" => pc'[w][l] = pc[w][l])
      /\ \A v \in Orders : v # w => pc'[v] = pc[v]
  BY DEF Moves
<1>2. HoldsNoOther(w) /\ JobsStay
  BY Unwritten DEF HoldsNoOther
<1>3. \A l \in Who : MergeFits(w, l)' \/ pc'[w][l] = pc[w][l]
  BY <1>1 DEF MergeFits
<1> QED
  BY <1>1, <1>2, <1>3, ControlStep

\* It takes one that writes the order or its workspace.
LEMMA OwnerStep ==
    ASSUME IInv, NEW w \in Orders, NEW place, Moves(w, "owner", place), PlacesTyped', place.at \notin Merging,
           RunsStay, LineTyped', UpdatesFit', RowsTyped', UNCHANGED <<job, validated, late, mergeMu>>,
           main' = main, ws'[w].forged = ws[w].forged,
           \A v \in Orders : v # w => TurnStays(v) /\ feature'[v] = feature[v] /\ ws'[v] = ws[v],
           ForgedFits(w)', InTimeFits(w)', Begun(w)', \A l \in Who : l # "owner" => MergeFits(w, l)'
    PROVE  IInv'
<1>1. Forged' = Forged
  BY DEF Forged
<1>2. OrderFits(w)'
  <2>1. MergeFits(w, "owner")'
    BY DEF MergeFits, Moves
  <2> QED
    BY <2>1 DEF OrderFits
<1>3. HoldsNoOther(w)
  BY DEF HoldsNoOther
<1>4. JobsTyped' /\ \A v \in Orders : v # w => (Passed(v) => Passed(v)') /\ pc'[v] = pc[v]
  BY Unwritten DEF JobsTyped, Passed, Moves
<1> QED
  BY <1>1, <1>2, <1>3, <1>4, RowStep DEF IInv, RunsStay

LEMMA StartBaseUpdateKeeps ==
    ASSUME IInv, NEW w \in Orders, NEW k \in Who, StartBaseUpdate(w, k)
    PROVE  IInv'
<1>1. UNCHANGED <<feature, main, ws, job, validated, late, mergeMu>> /\ PlacesTyped /\ RunsTyped /\ RowsTyped
  BY Unwritten DEF StartBaseUpdate
<1>2. CASE End(w, k) /\ UNCHANGED <<run, queue, upd>>
  BY <1>1, <1>2, Unwritten, EndStep
<1>3. CASE FailUpdate(w, k)
  BY <1>1, <1>3, FailStep
<1> DEFINE found == [Idle EXCEPT !.at = "intent", !.quiet = pc[w][k].quiet, !.saw = run[w].status,
                                 !.was = feature[w], !.onto = main]
<1>4. CASE /\ MayStartUpdate(w) /\ UNCHANGED <<run, queue, upd>>
           /\ pc' = [pc EXCEPT ![w] = [j \in Who |-> IF j = "owner" THEN found ELSE IF j = k THEN Idle ELSE pc[w][j]]]
  <2>1. found \in PlaceType /\ found.at = "intent"
    <3>1. pc[w][k] \in PlaceType /\ run[w].status \in RunStatuses /\ feature[w] \in Features /\ main \in Nat
      BY <1>1 DEF PlacesTyped, RunsTyped, RunType, RowsTyped
    <3>2. pc[w][k].quiet \in BOOLEAN /\ "intent" \in Steps
      BY <3>1 DEF PlaceType, Steps, Updates
    <3> QED
      BY <3>1, <3>2 DEF PlaceType, Idle
  <2> HIDE DEF found
  <2> DEFINE places == [j \in Who |-> IF j = "owner" THEN found ELSE IF j = k THEN Idle ELSE pc[w][j]]
  <2>2. places \in [Who -> PlaceType]
    BY <1>1, <2>1, StepsOfTheTypes DEF PlacesTyped
  <2>3. pc' = [pc EXCEPT ![w] = places]
    BY <1>4
  <2>4. \A l \in Who : places[l] = IF l = "owner" THEN found ELSE IF l = k THEN Idle ELSE pc[w][l]
    OBVIOUS
  <2> HIDE DEF places
  <2>5. PlacesTyped' /\ pc'[w] = places /\ \A v \in Orders : v # w => pc'[v] = pc[v]
    BY <1>1, <2>2, <2>3 DEF PlacesTyped
  <2>6. \A l \in Who : MergeFits(w, l)' \/ pc'[w][l] = pc[w][l]
    BY <2>1, <2>4, <2>5, StepsOfTheTypes DEF MergeFits
  <2>7. HoldsNoOther(w) /\ JobsStay /\ RunsStay /\ LineTyped' /\ UpdatesFit' /\ \A v \in Orders : TurnStays(v)
    BY <1>1, <1>4, Unwritten DEF HoldsNoOther, UpdatesKept
  <2>8. Begun(w)'
    BY <1>1, <2>1, <2>4, <2>5, <2>7, StepsOfTheTypes DEF IInv, OrderFits, Begun, TurnStays
  <2>9. ws[w].merged = 0
    BY <1>4 DEF MayStartUpdate
  <2> QED
    BY <1>1, <2>5, <2>6, <2>7, <2>8, <2>9, ControlStep
<1> QED
  BY <1>2, <1>3, <1>4 DEF StartBaseUpdate

LEMMA RecordIntentKeeps ==
    ASSUME IInv, NEW w \in Orders, RecordIntent(w)
    PROVE  IInv'
<1>1. /\ UNCHANGED <<feature, main, ws, job, validated, late, mergeMu, run, queue>> /\ Updating(w)
      /\ PlacesTyped /\ "owner" \in Who /\ Begun(w)
  BY Unwritten DEF RecordIntent, At, Updating, Updates, Who, IInv, OrderFits
<1> DEFINE u == [upd[w] EXCEPT !.intent = TRUE]
           place == [pc[w]["owner"] EXCEPT !.at = "leave"]
<1>2. UpdFits(u) /\ u.intent /\ u.turn = upd[w].turn
  BY DEF IInv, UpdatesFit, UpdFits, UpdateType
<1>3. upd' = [upd EXCEPT ![w] = u]
  BY DEF RecordIntent
<1>4. PlacesTyped' /\ Moves(w, "owner", place)
  BY <1>1, GotoMoves DEF RecordIntent, Steps, Updates
<1>5. place.at = "leave" /\ place.at \notin Merging
  BY <1>1, GoneTo DEF PlacesTyped, Steps, Updates, Merging
<1> HIDE DEF u, place
<1>6. UpdatesFit' /\ upd'[w] = u /\ \A v \in Orders : v # w => TurnStays(v)
  BY <1>2, <1>3, Unwritten, UpdateStored
<1>7. Begun(w)'
  BY <1>1, <1>2, <1>4, <1>5, <1>6 DEF Begun, Moves
<1> QED
  BY <1>1, <1>4, <1>5, <1>6, <1>7, Unwritten, OwnerControl

\* What merges an order has begun is not disturbed while it leaves the gate or comes back.
LEMMA MergeBeside ==
    ASSUME IInv, NEW w \in Orders, NEW l \in Who, UNCHANGED <<ws, job, validated, late, mergeMu>>,
           pc'[w][l] = pc[w][l], feature[w] = "completed" => w \in late
    PROVE  MergeFits(w, l)'
<1>1. MergeFits(w, l)
  BY DEF IInv, OrderFits
<1> QED
  BY <1>1 DEF MergeFits, CommitFits, Passed

LEMMA LeaveGateKeeps ==
    ASSUME IInv, NEW w \in Orders, LeaveGate(w)
    PROVE  IInv'
<1>1. /\ UNCHANGED <<main, ws, job, validated, late, mergeMu>> /\ Updating(w) /\ upd[w].intent
      /\ PlacesTyped /\ RowsTyped /\ "owner" \in Who /\ Begun(w) /\ ForgedFits(w) /\ InTimeFits(w)
  BY Unwritten DEF LeaveGate, At, Updating, Updates, Who, IInv, OrderFits, Begun
<1>2. CASE FailUpdate(w, "owner") /\ UNCHANGED feature
  BY <1>1, <1>2, FailStep
<1>3. CASE /\ pc[w]["owner"].was = "reviewing" \/ feature[w] = "ready_to_merge"
           /\ feature' = [feature EXCEPT ![w] = IF pc[w]["owner"].was = "reviewing" THEN @ ELSE "reviewing"]
           /\ Goto(w, "owner", "admit") /\ UNCHANGED <<run, queue, upd>>
  <2> DEFINE place == [pc[w]["owner"] EXCEPT !.at = "admit"]
  <2>1. PlacesTyped' /\ Moves(w, "owner", place)
    BY <1>1, <1>3, GotoMoves DEF Steps, Updates
  <2>2. place.at = "admit" /\ place.at \notin Merging
    BY <1>1, GoneTo DEF PlacesTyped, Steps, Updates, Merging
  <2> HIDE DEF place
  <2>3. RunsStay /\ LineTyped' /\ UpdatesFit' /\ \A v \in Orders : TurnStays(v)
    BY <1>3, Unwritten DEF UpdatesKept
  <2>4. Begun(w)'
    BY <1>1, <1>3, <2>1, <2>2 DEF Begun, Moves
  <2>5. CASE feature' = feature
    BY <1>1, <2>1, <2>2, <2>3, <2>4, <2>5, OwnerControl
  <2>6. CASE feature[w] = "ready_to_merge" /\ feature' = [feature EXCEPT ![w] = "reviewing"]
    <3>1. feature' \in [Orders -> Features] /\ feature'[w] = "reviewing" /\ \A v \in Orders : v # w => feature'[v] = feature[v]
      BY <1>1, <2>6 DEF RowsTyped, Features
    <3>2. RowsTyped'
      BY <1>1, <3>1 DEF RowsTyped
    <3>3. ForgedFits(w)' /\ InTimeFits(w)'
      BY <1>1, <1>3, <3>1 DEF ForgedFits, InTimeFits
    <3>4. \A l \in Who : l # "owner" => MergeFits(w, l)'
      BY <1>1, <2>1, <2>6, MergeBeside DEF Moves
    <3> QED
      BY <1>1, <1>3, <2>1, <2>2, <2>3, <2>4, <3>1, <3>2, <3>3, <3>4, OwnerStep
  <2>7. feature' = feature \/ (feature[w] = "ready_to_merge" /\ feature' = [feature EXCEPT ![w] = "reviewing"])
    <3>1. CASE pc[w]["owner"].was = "reviewing"
      BY <1>1, <1>3, <3>1 DEF RowsTyped
    <3>2. CASE pc[w]["owner"].was # "reviewing"
      BY <1>3, <3>2
    <3> QED
      BY <3>1, <3>2
  <2> QED
    BY <2>5, <2>6, <2>7
<1> QED
  BY <1>2, <1>3 DEF LeaveGate

\* An admitted update is one after the last that was verified.
LEMMA AdmissionFits ==
    ASSUME NEW u, UpdFits(u), NEW m \in Nat \cup {-1}
    PROVE  /\ UpdFits([u EXCEPT !.turn = (IF u.turn > u.verified THEN u.turn ELSE u.verified) + 1,
                                !.intent = FALSE, !.onto = m])
           /\ [u EXCEPT !.turn = (IF u.turn > u.verified THEN u.turn ELSE u.verified) + 1,
                        !.intent = FALSE, !.onto = m].turn > 0
<1>1. u.turn \in Nat /\ u.verified \in Nat /\ u.verified <= u.turn /\ u.failed \subseteq 1 .. u.turn /\ u \in UpdateType
  BY DEF UpdFits, UpdateType
<1>2. PICK t \in Nat : t = (IF u.turn > u.verified THEN u.turn ELSE u.verified) + 1
  BY <1>1
<1>3. t > 0 /\ u.verified <= t /\ u.failed \subseteq 1 .. t
  BY <1>1, <1>2
<1>4. LET x == [u EXCEPT !.turn = t, !.intent = FALSE, !.onto = m]
      IN  x \in UpdateType /\ x.turn = t /\ x.verified = u.verified /\ x.failed = u.failed
  BY <1>1 DEF UpdateType
<1> QED
  BY <1>2, <1>3, <1>4 DEF UpdFits

LEMMA RunAgainOK ==
    ASSUME RunsTyped, NEW w \in Orders, NEW r, r = run[w] \/ r = Moved(run[w], "running", "none", "none"),
           run' = [run EXCEPT ![w] = r]
    PROVE  RunsStay
<1>1. /\ RunOK(run[w]) /\ RunOK(Moved(run[w], "running", "none", "none"))
      /\ Moved(run[w], "running", "none", "none").status = "running"
  BY WaitKindsAndWhys, MovedOK DEF RunsTyped
<1>2. RunOK(r) /\ (r.status = "succeeded" => run[w].status = "succeeded")
  BY <1>1
<1> QED
  BY <1>2, RunStored

LEMMA AdmitUpdateKeeps ==
    ASSUME IInv, NEW w \in Orders, AdmitUpdate(w)
    PROVE  IInv'
<1>1. /\ UNCHANGED <<feature, main, ws, job, validated, late, mergeMu>> /\ Updating(w)
      /\ PlacesTyped /\ "owner" \in Who /\ Begun(w) /\ pc[w]["owner"] \in PlaceType
  BY Unwritten DEF AdmitUpdate, At, Updating, Updates, Who, IInv, OrderFits, PlacesTyped
<1>2. CASE FailUpdate(w, "owner")
  BY <1>1, <1>2, FailStep
<1>3. CASE /\ run' = [run EXCEPT ![w] = IF @.status = "running" THEN @ ELSE Moved(@, "running", "none", "none")]
           /\ upd' = [upd EXCEPT ![w].turn = (IF @ > upd[w].verified THEN @ ELSE upd[w].verified) + 1,
                                 ![w].intent = FALSE, ![w].onto = pc[w]["owner"].onto]
           /\ pc' = [pc EXCEPT ![w]["owner"] = [Idle EXCEPT !.at = "turn"]] /\ UNCHANGED queue
  <2> DEFINE m == pc[w]["owner"].onto
             u == [upd[w] EXCEPT !.turn = (IF upd[w].turn > upd[w].verified THEN upd[w].turn ELSE upd[w].verified) + 1,
                                 !.intent = FALSE, !.onto = m]
             place == [Idle EXCEPT !.at = "turn"]
             r == IF run[w].status = "running" THEN run[w] ELSE Moved(run[w], "running", "none", "none")
  <2>1. UpdFits(u) /\ u.turn > 0
    <3>1. UpdFits(upd[w]) /\ m \in Nat \cup {-1}
      BY <1>1 DEF IInv, UpdatesFit, PlaceType
    <3> QED
      BY <3>1, AdmissionFits
  <2>2. upd' = [upd EXCEPT ![w] = u]
    BY <1>3 DEF IInv, UpdatesFit
  <2>3. place \in PlaceType /\ place.at = "turn"
    BY IdleAt DEF Steps, Updates
  <2>4. PlacesTyped' /\ Moves(w, "owner", place)
    BY <1>1, <1>3, <2>3, PlaceMoves
  <2>5. run' = [run EXCEPT ![w] = r] /\ (r = run[w] \/ r = Moved(run[w], "running", "none", "none"))
    BY <1>3
  <2> HIDE DEF u, place, r, m
  <2>6. UpdatesFit' /\ upd'[w] = u /\ \A v \in Orders : v # w => TurnStays(v)
    BY <2>1, <2>2, Unwritten, UpdateStored
  <2>7. RunsStay /\ LineTyped'
    BY <1>3, <2>5, Unwritten, RunAgainOK
  <2>8. Begun(w)' /\ place.at \notin Merging
    BY <1>1, <2>1, <2>3, <2>4, <2>6, Unwritten DEF Begun, Moves, IInv, UpdatesFit, UpdFits, UpdateType, Merging
  <2> QED
    BY <1>1, <2>4, <2>6, <2>7, <2>8, OwnerControl
<1> QED
  BY <1>2, <1>3 DEF AdmitUpdate

\* An update that is verified: a new commit that nobody has approved, and main's place in it.
LEMMA VerificationFits ==
    ASSUME NEW x, NEW m \in Nat, WsFits(x, m), NEW b \in x.base .. m
    PROVE  LET y == [x EXCEPT !.head = @ + 1, !.approved = 0, !.base = b]
           IN  /\ WsFits(y, m) /\ y.head = x.head + 1 /\ y.approved = 0
               /\ y.forged = x.forged /\ y.merged = x.merged
<1>1. x.head \in Nat /\ x.base \in Nat /\ x \in WorkspaceType
  BY DEF WsFits, WorkspaceType
<1>2. PICK h \in Nat : h = x.head + 1
  BY <1>1
<1>3. b \in Nat /\ b <= m
  BY <1>1
<1> DEFINE y == [x EXCEPT !.head = h, !.approved = 0, !.base = b]
<1>4. y \in WorkspaceType /\ y.head = h /\ y.approved = 0 /\ y.base = b /\ y.merged = x.merged /\ y.forged = x.forged
  BY <1>1, <1>3 DEF WorkspaceType
<1>5. [x EXCEPT !.head = @ + 1, !.approved = 0, !.base = b] = y
  BY <1>2
<1> HIDE DEF y
<1>6. WsFits(y, m)
  BY <1>2, <1>3, <1>4 DEF WsFits
<1> QED
  BY <1>2, <1>4, <1>5, <1>6

\* The owner writes the workspace of an order whose commit Forgejo has not
\* merged, or pins what it merged; the merges beside it go on with what they read.
LEMMA BranchStep ==
    ASSUME IInv, NEW w \in Orders, NEW place, Moves(w, "owner", place), PlacesTyped', place.at \in Updates,
           Updating(w), RunsStay, LineTyped', UpdatesFit', UNCHANGED <<feature, main, job, validated, late, mergeMu>>,
           NEW x, ws' = [ws EXCEPT ![w] = x], WsFits(x, main),
           x.forged = ws[w].forged, x.merged = ws[w].merged,
           \/ ws[w].forged = 0 /\ x.head = ws[w].head + 1 /\ x.approved = 0
           \/ x.head = ws[w].head /\ x.approved = x.head,
           \A v \in Orders : v # w => TurnStays(v), Begun(w)'
    PROVE  IInv'
<1>1. /\ RowsTyped /\ ForgedFits(w) /\ InTimeFits(w) /\ WsFits(ws[w], main)
      /\ \A l \in Who : MergeFits(w, l)
  BY DEF IInv, OrderFits, RowsTyped
<1>2. ws'[w] = x /\ \A v \in Orders : v # w => ws'[v] = ws[v]
  BY <1>1 DEF RowsTyped
<1>3. RowsTyped'
  <2>1. ws' \in [Orders -> WorkspaceType]
    BY <1>1 DEF RowsTyped, WsFits
  <2>2. \A v \in Orders : WsFits(ws'[v], main)
    BY <1>1, <1>2 DEF RowsTyped
  <2> QED
    BY <1>1, <2>1, <2>2 DEF RowsTyped
<1>4. ForgedFits(w)'
  BY <1>1, <1>2 DEF ForgedFits, RunsStay
<1>5. InTimeFits(w)'
  BY <1>1, <1>2 DEF InTimeFits
<1>6. ASSUME NEW l \in Who, l # "owner" PROVE MergeFits(w, l)'
  <2>1. pc'[w][l] = pc[w][l] /\ pc[w][l] \in PlaceType
    BY <1>6 DEF Moves, IInv, PlacesTyped
  <2>2. x.head \in Nat /\ x.approved \in Nat /\ ws[w].head \in Nat /\ ws[w].approved \in Nat
    BY <1>1 DEF WsFits, WorkspaceType
  <2>3. ASSUME NEW c \in Nat, CommitFits(w, c)
        PROVE  /\ CommitFits(w, c)'
               /\ c = x.approved => c = ws[w].approved
    BY <1>1, <1>2, <2>2, <2>3 DEF CommitFits
  <2>4. pc[w][l].passed \in Nat /\ pc[w][l].commit \in Nat
    BY <2>1 DEF PlaceType
  <2>5. x.approved = ws[w].approved /\ Passed(w) => Passed(w)'
    BY <1>2 DEF Passed
  <2>6. CASE pc[w][l].at \notin Merging
    BY <2>1, <2>6 DEF MergeFits
  <2>7. CASE pc[w][l].at \in Merging
    <3>1. pc[w][l].at \in Choosing => CommitFits(w, pc[w][l].passed)' /\ (validated /\ pc[w][l].passed = x.approved => Passed(w)')
      <4> SUFFICES ASSUME pc[w][l].at \in Choosing
                   PROVE  CommitFits(w, pc[w][l].passed)' /\ (validated /\ pc[w][l].passed = x.approved => Passed(w)')
        OBVIOUS
      <4>1. CommitFits(w, pc[w][l].passed) /\ (validated /\ pc[w][l].passed = ws[w].approved => Passed(w))
        BY <1>1, <2>7 DEF MergeFits
      <4> DEFINE c == pc[w][l].passed
      <4>2. c \in Nat /\ CommitFits(w, c) /\ (validated /\ c = ws[w].approved => Passed(w)) /\ c' = c
        BY <2>1, <2>4, <4>1
      <4>3. CommitFits(w, c)'
        BY <1>1, <1>2, <2>2, <4>2 DEF CommitFits
      <4>4. c = x.approved => c = ws[w].approved
        BY <2>3, <4>2
      <4> HIDE DEF c
      <4>5. validated /\ c = x.approved => Passed(w)'
        BY <2>5, <4>2, <4>4
      <4> QED
        BY <4>3, <4>5 DEF c
    <3>2. pc[w][l].at \in {"forge", "mark"} => CommitFits(w, pc[w][l].commit)'
      <4>1. pc[w][l].at \in {"forge", "mark"} => CommitFits(w, pc[w][l].commit)
        BY <1>1, <2>7 DEF MergeFits
      <4> QED
        BY <1>1, <1>2, <2>1, <2>2, <2>4, <4>1 DEF CommitFits
    <3> QED
      BY <1>1, <1>2, <2>1, <2>7, <3>1, <3>2 DEF MergeFits
  <2> QED
    BY <2>6, <2>7
<1>7. place.at \notin Merging
  BY DEF Merging, Updates
<1> QED
  BY <1>2, <1>3, <1>4, <1>5, <1>6, <1>7, OwnerStep

LEMMA VerifyUpdateKeeps ==
    ASSUME IInv, NEW w \in Orders, VerifyUpdate(w)
    PROVE  IInv'
<1>1. /\ UNCHANGED <<feature, main, job, validated, late, mergeMu, run, queue>> /\ Updating(w)
      /\ PlacesTyped /\ "owner" \in Who /\ Begun(w) /\ upd[w].turn > 0 /\ RowsTyped /\ UpdFits(upd[w]) /\ WsFits(ws[w], main)
      /\ ws[w].forged = 0
  BY Unwritten DEF VerifyUpdate, At, Updating, Updates, Who, IInv, OrderFits, Begun, UpdatesFit, RowsTyped
<1> DEFINE u == [upd[w] EXCEPT !.verified = upd[w].turn]
           place == [pc[w]["owner"] EXCEPT !.at = "again"]
<1>2. UpdFits(u) /\ u.turn = upd[w].turn /\ u.intent = upd[w].intent
  BY <1>1 DEF UpdFits, UpdateType
<1>3. upd' = [upd EXCEPT ![w] = u]
  BY DEF VerifyUpdate
<1>4. PlacesTyped' /\ Moves(w, "owner", place)
  BY <1>1, GotoMoves DEF VerifyUpdate, Steps, Updates
<1>5. place.at = "again" /\ place.at \in Updates
  BY <1>1, GoneTo DEF PlacesTyped, Steps, Updates
<1>6. PICK b \in ws[w].base .. main : ws' = [ws EXCEPT ![w].head = @ + 1, ![w].approved = 0, ![w].base = b]
  BY DEF VerifyUpdate
<1> DEFINE x == [ws[w] EXCEPT !.head = @ + 1, !.approved = 0, !.base = b]
<1>7. /\ WsFits(x, main) /\ x.head = ws[w].head + 1 /\ x.approved = 0
      /\ x.forged = ws[w].forged /\ x.merged = ws[w].merged
  BY <1>1, VerificationFits DEF RowsTyped
<1>8. ws' = [ws EXCEPT ![w] = x]
  BY <1>1, <1>6 DEF RowsTyped, WorkspaceType
<1> HIDE DEF u, place, x
<1>9. UpdatesFit' /\ upd'[w] = u /\ \A v \in Orders : v # w => TurnStays(v)
  BY <1>2, <1>3, Unwritten, UpdateStored
<1>10. Begun(w)'
  BY <1>1, <1>2, <1>4, <1>5, <1>9 DEF Begun, Moves
<1> QED
  BY <1>1, <1>4, <1>5, <1>7, <1>8, <1>9, <1>10, Unwritten, BranchStep

LEMMA ReviewAgainKeeps ==
    ASSUME IInv, NEW w \in Orders, ReviewAgain(w)
    PROVE  IInv'
<1>1. /\ UNCHANGED <<feature, main, job, validated, late, mergeMu>> /\ Updating(w)
      /\ PlacesTyped /\ "owner" \in Who /\ Begun(w) /\ ForgedFits(w) /\ upd[w].turn > 0 /\ RowsTyped
      /\ pc[w]["owner"].at = "again" /\ WsFits(ws[w], main)
  BY Unwritten DEF ReviewAgain, At, Updating, Updates, Who, IInv, OrderFits, Begun, RowsTyped
<1>2. CASE waitRun(w, "phase_checkpoint", "boundary") /\ End(w, "owner") /\ UNCHANGED ws
  BY <1>1, <1>2, Unwritten, WaitKindsAndWhys, WaitingStored, EndStep
<1>3. CASE /\ ws[w].approved = 0 /\ ws' = [ws EXCEPT ![w].head = @ + 1]
           /\ upd' = [upd EXCEPT ![w].failed = @ \cup {upd[w].turn}] /\ UNCHANGED <<run, queue, pc>>
  <2> DEFINE x == [ws[w] EXCEPT !.head = @ + 1]
             u == [upd[w] EXCEPT !.failed = @ \cup {upd[w].turn}]
             place == pc[w]["owner"]
  <2>1. ws' = [ws EXCEPT ![w] = x] /\ upd' = [upd EXCEPT ![w] = u]
    BY <1>3
  <2>2. /\ WsFits(x, main) /\ x.forged = ws[w].forged /\ x.merged = ws[w].merged /\ x.head = ws[w].head + 1
        /\ x.approved = 0
    <3>1. PICK h \in Nat : h = ws[w].head + 1
      BY <1>1 DEF WsFits, WorkspaceType
    <3>2. x = [ws[w] EXCEPT !.head = h]
      BY <3>1
    <3> QED
      BY <1>1, <1>3, <3>1, <3>2 DEF WsFits, WorkspaceType
  <2>3. UpdFits(u) /\ u.turn = upd[w].turn /\ u.intent = upd[w].intent
    BY <1>1, Unwritten DEF UpdatesFit, UpdFits, UpdateType
  <2>4. PlacesTyped' /\ Moves(w, "owner", place) /\ place.at \in Updates
    BY <1>1, <1>3, Unwritten DEF Moves, PlacesTyped, Updates
  <2> HIDE DEF x, u, place
  <2>5. UpdatesFit' /\ upd'[w] = u /\ \A v \in Orders : v # w => TurnStays(v)
    BY <2>1, <2>3, Unwritten, UpdateStored
  <2>6. Begun(w)' /\ ws[w].forged = 0
    BY <1>1, <1>3, <2>3, <2>5 DEF Begun, ForgedFits
  <2> QED
    BY <1>1, <1>3, <2>1, <2>2, <2>4, <2>5, <2>6, Unwritten, BranchStep
<1>4. CASE /\ ws' = [ws EXCEPT ![w].approved = ws[w].head]
           /\ Goto(w, "owner", "ready") /\ UNCHANGED <<run, queue, upd>>
  <2> DEFINE x == [ws[w] EXCEPT !.approved = ws[w].head]
             place == [pc[w]["owner"] EXCEPT !.at = "ready"]
  <2>1. PlacesTyped' /\ Moves(w, "owner", place)
    BY <1>1, <1>4, GotoMoves DEF Steps, Updates
  <2>2. place.at = "ready" /\ place.at \in Updates
    BY <1>1, GoneTo DEF PlacesTyped, Steps, Updates
  <2>3. ws' = [ws EXCEPT ![w] = x]
    BY <1>4
  <2>4. /\ WsFits(x, main) /\ x.forged = ws[w].forged /\ x.merged = ws[w].merged /\ x.head = ws[w].head
        /\ x.approved = x.head
    BY <1>1 DEF WsFits, WorkspaceType
  <2> HIDE DEF x, place
  <2>5. UpdatesFit' /\ \A v \in Orders : TurnStays(v)
    BY <1>4, Unwritten DEF UpdatesKept
  <2>6. Begun(w)'
    BY <1>1, <2>1, <2>2, <2>5 DEF Begun, Moves, TurnStays
  <2> QED
    BY <1>1, <1>4, <2>1, <2>2, <2>3, <2>4, <2>5, <2>6, Unwritten, BranchStep
<1> QED
  BY <1>2, <1>3, <1>4 DEF ReviewAgain

LEMMA ReadyToMergeKeeps ==
    ASSUME IInv, NEW w \in Orders, ReadyToMerge(w)
    PROVE  IInv'
<1>1. /\ UNCHANGED <<main, ws, job, validated, late, mergeMu, run, queue, upd>> /\ Updating(w)
      /\ PlacesTyped /\ RowsTyped /\ "owner" \in Who /\ Begun(w) /\ ForgedFits(w) /\ InTimeFits(w)
  BY Unwritten DEF ReadyToMerge, At, Updating, Updates, Who, IInv, OrderFits
<1> DEFINE place == [pc[w]["owner"] EXCEPT !.at = "gate"]
<1>2. PlacesTyped' /\ Moves(w, "owner", place)
  BY <1>1, GotoMoves DEF ReadyToMerge, Steps
<1>3. place.at = "gate" /\ place.at \notin Merging /\ place.at \notin Updates
  BY <1>1, GoneTo DEF PlacesTyped, Steps, Merging, Updates
<1> HIDE DEF place
<1>4. feature' \in [Orders -> Features] /\ feature'[w] = "ready_to_merge" /\ \A v \in Orders : v # w => feature'[v] = feature[v]
  BY <1>1 DEF ReadyToMerge, RowsTyped, Features
<1>5. RowsTyped'
  BY <1>1, <1>4 DEF RowsTyped
<1>6. RunsStay /\ LineTyped' /\ UpdatesFit' /\ \A v \in Orders : TurnStays(v)
  BY <1>1, Unwritten DEF UpdatesKept
<1>7. ForgedFits(w)' /\ InTimeFits(w)' /\ Begun(w)'
  BY <1>1, <1>2, <1>3, <1>4 DEF ForgedFits, InTimeFits, Begun, Moves
<1>8. \A l \in Who : l # "owner" => MergeFits(w, l)'
  <2>1. feature[w] = "completed" => w \in late
    BY <1>1 DEF ForgedFits, InTimeFits
  <2> QED
    BY <1>1, <1>2, <2>1, MergeBeside DEF Moves
<1> QED
  BY <1>1, <1>2, <1>3, <1>4, <1>5, <1>6, <1>7, <1>8, OwnerStep

LEMMA BlockUpdateKeeps ==
    ASSUME IInv, NEW w \in Orders, BlockUpdate(w)
    PROVE  IInv'
<1>1. /\ UNCHANGED <<feature, main, ws, job, validated, late, mergeMu>> /\ "owner" \in Who
      /\ waitRun(w, "blocker", "blocked") /\ End(w, "owner")
  BY DEF BlockUpdate, Who
<1> QED
  BY <1>1, Unwritten, WaitKindsAndWhys, WaitingStored, EndStep

-----------------------------------------------------------------------------
(* The line, validation, users and restarts. *)

LEMMA AdvanceMergeQueueKeeps ==
    ASSUME IInv, AdvanceMergeQueue
    PROVE  IInv'
<1>1. UNCHANGED <<run, feature, main, ws, upd, job, validated, late, mergeMu>> /\ queue' = mergeLine(queue, "none")
  BY DEF AdvanceMergeQueue
<1>2. /\ RunsTyped /\ LineTyped /\ PlacesTyped /\ UpdatesFit /\ JobsTyped /\ RowsTyped
      /\ RunsTyped' /\ UpdatesFit' /\ JobsTyped' /\ RowsTyped' /\ main' = Cardinality(Forged')
  BY <1>1, Unwritten DEF JobsTyped, RowsTyped, Forged, IInv, UpdatesKept
<1>3. LineTyped'
  <2>1. CASE Orders = {}
    <3>1. queue' \subseteq queue
      BY <1>1 DEF mergeLine, Only
    <3> QED
      BY <1>2, <2>1, <3>1 DEF LineTyped, InOrder
  <2>2. CASE Orders # {}
    BY <1>1, <1>2, <2>2, LinesInOrder DEF LineTyped
  <2> QED
    BY <2>1, <2>2
<1>4. ASSUME NEW v \in Orders
      PROVE  /\ pc'[v] \in [Who -> PlaceType]
             /\ \A l \in Who : pc'[v][l] = pc[v][l] \/ (l = "free" /\ pc'[v][l].at = "place")
  <2>1. pc'[v] = pc[v] \/ pc'[v] = [pc[v] EXCEPT !["free"].at = "place"]
    BY DEF AdvanceMergeQueue
  <2>2. pc[v] \in [Who -> PlaceType] /\ "free" \in Who
    BY <1>2 DEF PlacesTyped, Who
  <2>3. CASE pc'[v] = [pc[v] EXCEPT !["free"].at = "place"]
    <3> DEFINE place == [pc[v]["free"] EXCEPT !.at = "place"]
    <3>1. place \in PlaceType /\ place.at = "place"
      BY <2>2, GoneTo DEF Steps
    <3>2. pc'[v] = [pc[v] EXCEPT !["free"] = place]
      BY <2>3
    <3> HIDE DEF place
    <3> QED
      BY <2>2, <3>1, <3>2
  <2> QED
    BY <2>1, <2>2, <2>3
<1>5. PlacesTyped'
  <2>1. pc' = [v \in Orders |-> pc'[v]]
    BY DEF AdvanceMergeQueue
  <2> QED
    BY <1>4, <2>1 DEF PlacesTyped
<1>6. ASSUME NEW v \in Orders PROVE OrderFits(v)'
  <2>1. OrderFits(v) /\ Begun(v)
    BY DEF IInv, OrderFits
  <2>2. pc'[v]["owner"] = pc[v]["owner"]
    BY <1>4 DEF Who
  <2>3. Begun(v)' /\ (Updating(v)' => Updating(v))
    BY <1>1, <2>1, <2>2 DEF Begun, Updating
  <2>4. \A l \in Who : MergeFits(v, l)' \/ pc'[v][l] = pc[v][l]
    BY <1>4 DEF MergeFits, Merging
  <2>5. Passed(v) => Passed(v)'
    BY <1>1 DEF Passed
  <2> QED
    BY <1>1, <2>1, <2>3, <2>4, <2>5, OrderStays
<1> QED
  BY <1>2, <1>3, <1>5, <1>6 DEF IInv

LEMMA CrashKeeps ==
    ASSUME IInv, Crash
    PROVE  IInv'
<1>1. UNCHANGED <<run, feature, queue, main, ws, upd, job, validated, late>> /\ pc' = [w \in Orders |-> [k \in Who |-> Idle]]
  BY DEF Crash
<1>2. /\ RunsTyped' /\ LineTyped' /\ UpdatesFit' /\ JobsTyped' /\ RowsTyped' /\ main' = Cardinality(Forged')
  BY <1>1, Unwritten DEF JobsTyped, RowsTyped, Forged, IInv, UpdatesKept
<1>3. PlacesTyped'
  BY <1>1, StepsOfTheTypes DEF PlacesTyped
<1>4. ASSUME NEW v \in Orders PROVE OrderFits(v)'
  <2>1. OrderFits(v) /\ Begun(v)
    BY DEF IInv, OrderFits
  <2>2. \A l \in Who : pc'[v][l] = Idle
    BY <1>1
  <2>3. Idle.at = "idle" /\ "owner" \in Who /\ "idle" \notin Merging /\ "idle" \notin Updates
    BY DEF Idle, Who, Merging, Updates
  <2>4. Begun(v)' /\ ~Updating(v)' /\ \A l \in Who : MergeFits(v, l)'
    BY <1>1, <2>1, <2>2, <2>3 DEF Begun, Updating, MergeFits
  <2>5. Passed(v) => Passed(v)'
    BY <1>1 DEF Passed
  <2> QED
    BY <1>1, <2>1, <2>4, <2>5, OrderStays
<1> QED
  BY <1>2, <1>3, <1>4 DEF IInv

LEMMA CompleteJobKeeps ==
    ASSUME IInv, NEW w \in Orders, NEW status \in {"passed", "failed"}, CompleteJob(w, status)
    PROVE  IInv'
<1>1. UNCHANGED <<run, feature, queue, main, ws, upd, validated, late, mergeMu>> /\ "free" \in Who
  BY DEF CompleteJob, Who
<1>2. JobsStay
  <2>1. [job[w] EXCEPT !.status = status] \in JobType /\ job' = [job EXCEPT ![w] = [job[w] EXCEPT !.status = status]]
    BY Unwritten DEF CompleteJob, JobsTyped, JobType
  <2>2. job[w].status = "pending" /\ JobsTyped
    BY Unwritten DEF CompleteJob
  <2> QED
    BY <1>1, <2>1, <2>2 DEF JobsStay, JobsTyped, Passed
<1>3. CASE Goto(w, "free", "validated")
  BY <1>1, <1>2, <1>3, Unwritten, WaitKindsAndWhys, GotoStep
<1>4. CASE UNCHANGED pc
  BY <1>1, <1>2, <1>4, Unwritten, NobodyMoves
<1> QED
  BY <1>3, <1>4 DEF CompleteJob

LEMMA RetryJobKeeps ==
    ASSUME IInv, NEW w \in Orders, RetryJob(w)
    PROVE  IInv'
<1>1. UNCHANGED <<run, feature, queue, main, ws, upd, validated, late, mergeMu, pc>>
  BY DEF RetryJob
<1>2. JobsStay
  <2>1. [job[w] EXCEPT !.status = "pending"] \in JobType /\ job' = [job EXCEPT ![w] = [job[w] EXCEPT !.status = "pending"]]
    BY Unwritten DEF RetryJob, JobsTyped, JobType
  <2>2. job[w].status = "failed" /\ JobsTyped
    BY Unwritten DEF RetryJob
  <2> QED
    BY <1>1, <2>1, <2>2 DEF JobsStay, JobsTyped, Passed
<1> QED
  BY <1>1, <1>2, Unwritten, NobodyMoves

LEMMA ValidationPassedKeeps ==
    ASSUME IInv, NEW w \in Orders, ValidationPassed(w)
    PROVE  IInv'
<1>1. UNCHANGED <<feature, queue, main, ws, upd, job, validated, late, mergeMu>> /\ "free" \in Who
  BY DEF ValidationPassed, Who
<1>2. RunsStay
  <2> DEFINE r == IF ~run[w].paused /\ AtGate(run[w]) /\ run[w].why = "validation" THEN [run[w] EXCEPT !.why = "passed"] ELSE run[w]
  <2>1. run' = [run EXCEPT ![w] = r]
    BY DEF ValidationPassed
  <2>2. RunOK(r) /\ r.status = run[w].status
    BY Unwritten DEF RunsTyped, RunOK, RunType, Why
  <2> HIDE DEF r
  <2> QED
    BY <2>1, <2>2, Unwritten, RunStored
<1>3. CASE Goto(w, "free", "place")
  BY <1>1, <1>2, <1>3, Unwritten, WaitKindsAndWhys, GotoStep
<1>4. CASE End(w, "free")
  BY <1>1, <1>2, <1>4, Unwritten, EndStep
<1> QED
  BY <1>3, <1>4 DEF ValidationPassed

LEMMA UserMergeKeeps ==
    ASSUME IInv, NEW w \in Orders, UserMerge(w)
    PROVE  IInv'
<1>1. UNCHANGED <<run, feature, queue, main, ws, upd, job, validated, late, mergeMu>> /\ "user" \in Who
  BY DEF UserMerge, Who
<1>2. pc' = [pc EXCEPT ![w]["user"] = [Idle EXCEPT !.at = "merge", !.quiet = TRUE]]
  BY DEF UserMerge
<1>3. /\ [Idle EXCEPT !.at = "merge", !.quiet = TRUE] \in PlaceType
      /\ [Idle EXCEPT !.at = "merge", !.quiet = TRUE].at = "merge" /\ "merge" \notin Merging \cup Updates
  BY IdleAt DEF Steps, Merging, Updates
<1> QED
  BY <1>1, <1>2, <1>3, Unwritten, PlainStep

LEMMA PauseKeeps ==
    ASSUME IInv, NEW w \in Orders, Pause(w)
    PROVE  IInv'
<1>1. UNCHANGED <<feature, queue, main, ws, upd, job, validated, late, mergeMu, pc>> /\ run' = [run EXCEPT ![w] = Paused(run[w])]
  BY DEF Pause
<1>2. RunsStay
  <2>1. RunOK(Paused(run[w])) /\ Paused(run[w]).status = run[w].status
    <3>1. RunOK(run[w])
      BY Unwritten DEF RunsTyped
    <3> QED
      BY <3>1, PausedOK DEF Paused, RunOK, RunType
  <2> QED
    BY <1>1, <2>1, Unwritten, RunStored
<1> QED
  BY <1>1, <1>2, Unwritten, NobodyMoves

LEMMA ResumeKeeps ==
    ASSUME IInv, NEW w \in Orders, Resume(w)
    PROVE  IInv'
<1>1. UNCHANGED <<feature, queue, main, ws, upd, job, validated, late, mergeMu>> /\ run' = [run EXCEPT ![w] = Unpaused(run[w])]
      /\ "free" \in Who
  BY DEF Resume, Who
<1>2. RunsStay
  <2>1. RunOK(Unpaused(run[w])) /\ Unpaused(run[w]).status = run[w].status
    <3>1. RunOK(run[w])
      BY Unwritten DEF RunsTyped
    <3> QED
      BY <3>1, PausedOK DEF Unpaused, RunOK, RunType
  <2> QED
    BY <1>1, <2>1, Unwritten, RunStored
<1>3. CASE UNCHANGED pc
  BY <1>1, <1>2, <1>3, Unwritten, NobodyMoves
<1>4. CASE pc' = [pc EXCEPT ![w]["free"] = [Idle EXCEPT !.at = "recover", !.quiet = TRUE]]
  <2>1. /\ [Idle EXCEPT !.at = "recover", !.quiet = TRUE] \in PlaceType
        /\ [Idle EXCEPT !.at = "recover", !.quiet = TRUE].at = "recover" /\ "recover" \notin Merging \cup Updates
    BY IdleAt DEF Steps, Merging, Updates
  <2> QED
    BY <1>1, <1>2, <1>4, <2>1, Unwritten, PlainStep
<1> QED
  BY <1>3, <1>4 DEF Resume

LEMMA ContinueKeeps ==
    ASSUME IInv, NEW w \in Orders, Continue(w)
    PROVE  IInv'
<1>1. UNCHANGED <<feature, queue, main, ws, upd, job, validated, late, mergeMu>> /\ "free" \in Who /\ Goto(w, "free", "recover")
  BY DEF Continue, Who
<1>2. RunsStay
  <2> DEFINE r == Moved(run[w], "running", "none", run[w].why)
  <2>1. RunOK(r) /\ r.status = "running"
    <3>1. RunOK(run[w]) /\ run[w].why \in Why
      BY Unwritten DEF RunsTyped, RunOK, RunType
    <3> QED
      BY <3>1, WaitKindsAndWhys, MovedOK
  <2>2. run' = [run EXCEPT ![w] = r]
    BY DEF Continue
  <2> HIDE DEF r
  <2> QED
    BY <2>1, <2>2, Unwritten, RunStored
<1> QED
  BY <1>1, <1>2, Unwritten, WaitKindsAndWhys, GotoStep

LEMMA RecoverRunKeeps ==
    ASSUME IInv, NEW w \in Orders, RecoverRun(w)
    PROVE  IInv'
<1>1. UNCHANGED <<run, feature, queue, main, ws, upd, job, validated, late, mergeMu>> /\ "free" \in Who
  BY DEF RecoverRun, Who
<1>2. pc' = [pc EXCEPT ![w]["free"] = [Idle EXCEPT !.at = "recover", !.quiet = TRUE]]
  BY DEF RecoverRun
<1>3. /\ [Idle EXCEPT !.at = "recover", !.quiet = TRUE] \in PlaceType
      /\ [Idle EXCEPT !.at = "recover", !.quiet = TRUE].at = "recover" /\ "recover" \notin Merging \cup Updates
  BY IdleAt DEF Steps, Merging, Updates
<1> QED
  BY <1>1, <1>2, <1>3, Unwritten, PlainStep

LEMMA RecoverKeeps ==
    ASSUME IInv, NEW w \in Orders, Recover(w)
    PROVE  IInv'
<1>1. /\ UNCHANGED <<feature, main, ws, validated, late, mergeMu>> /\ "free" \in Who /\ "owner" \in Who
      /\ PlacesTyped /\ Begun(w) /\ InTimeFits(w)
  BY Unwritten DEF Recover, Who, IInv, OrderFits
<1>2. ASSUME NEW step \in {"merge", "update"}, Goto(w, "free", step), UNCHANGED <<run, queue, upd, job>> PROVE IInv'
  BY <1>1, <1>2, Unwritten, WaitKindsAndWhys, GotoStep
<1>3. CASE waitRun(w, "phase_checkpoint", "boundary") /\ End(w, "free") /\ UNCHANGED job
  BY <1>1, <1>3, Unwritten, WaitKindsAndWhys, WaitingStored, EndStep
<1>4. CASE End(w, "free") /\ UNCHANGED <<run, queue, upd, job>>
  BY <1>1, <1>4, Unwritten, EndStep
<1>5. CASE /\ feature[w] = "reviewing" /\ ~upd[w].intent /\ UNCHANGED <<queue, upd, job>>
           /\ \E step \in {"turn", "again"} :
                pc' = [pc EXCEPT ![w]["owner"] = [Idle EXCEPT !.at = step], ![w]["free"] = Idle]
           /\ run' = [run EXCEPT ![w] = IF @.status = "waiting" THEN Moved(@, "running", "none", "none") ELSE @]
  <2>1. PICK step \in {"turn", "again"} :
          pc' = [pc EXCEPT ![w]["owner"] = [Idle EXCEPT !.at = step], ![w]["free"] = Idle]
    BY <1>5
  <2> DEFINE place == [Idle EXCEPT !.at = step]
             r == IF run[w].status = "waiting" THEN Moved(run[w], "running", "none", "none") ELSE run[w]
  <2>2. place \in PlaceType /\ place.at = step
    BY IdleAt DEF Steps, Updates
  <2>3. run' = [run EXCEPT ![w] = r] /\ (r = run[w] \/ r = Moved(run[w], "running", "none", "none"))
    BY <1>5
  <2>4. pc' = [pc EXCEPT ![w]["owner"] = place, ![w]["free"] = Idle]
    BY <2>1
  <2> HIDE DEF place, r
  <2>5. /\ PlacesTyped' /\ pc'[w]["owner"] = place /\ pc'[w]["free"] = Idle
        /\ \A l \in Who : l \notin {"owner", "free"} => pc'[w][l] = pc[w][l]
        /\ \A v \in Orders : v # w => pc'[v] = pc[v]
    BY <1>1, <2>2, <2>4, StepsOfTheTypes DEF PlacesTyped
  <2>6. RunsStay /\ LineTyped' /\ UpdatesFit' /\ JobsStay /\ HoldsNoOther(w) /\ \A v \in Orders : TurnStays(v)
    BY <1>1, <1>5, <2>3, Unwritten, RunAgainOK DEF UpdatesKept, HoldsNoOther
  <2>7. \A l \in Who : MergeFits(w, l)' \/ pc'[w][l] = pc[w][l]
    BY <2>2, <2>5, StepsOfTheTypes DEF MergeFits
  <2>8. Begun(w)'
    BY <1>1, <1>5, <2>2, <2>5 DEF Begun
  <2>9. ws[w].merged = 0 \/ w \in late
    BY <1>1, <1>5 DEF InTimeFits
  <2> QED
    BY <1>1, <2>5, <2>6, <2>7, <2>8, <2>9, ControlStep
<1>6. CASE /\ job' = (IF validated /\ ws[w].approved # 0 THEN EnsureJob(w) ELSE job)
           /\ \/ waitRun(w, "merge_gate", "validation") /\ End(w, "free")
              \/ pc' = [pc EXCEPT ![w]["free"] = [Idle EXCEPT !.at = "place"]] /\ UNCHANGED <<run, queue, upd>>
              \/ waitRun(w, "merge_gate", "ready") /\ End(w, "free")
  <2>1. JobsStay
    <3>1. job' = job \/ job' = EnsureJob(w)
      BY <1>6
    <3> QED
      BY <1>1, <3>1, Unwritten, JobMade
  <2>2. RunsStay /\ LineTyped' /\ UpdatesKept
    BY <1>6, Unwritten, WaitKindsAndWhys, WaitingStored
  <2>3. CASE End(w, "free")
    BY <1>1, <2>1, <2>2, <2>3, EndStep
  <2>4. CASE pc' = [pc EXCEPT ![w]["free"] = [Idle EXCEPT !.at = "place"]]
    <3>1. /\ [Idle EXCEPT !.at = "place"] \in PlaceType /\ [Idle EXCEPT !.at = "place"].at = "place"
          /\ "place" \notin Merging \cup Updates
      BY IdleAt DEF Steps, Merging, Updates
    <3> QED
      BY <1>1, <2>1, <2>2, <2>4, <3>1, PlainStep
  <2> QED
    BY <1>6, <2>3, <2>4
<1>7. \/ \E step \in {"merge", "update"} : Goto(w, "free", step) /\ UNCHANGED <<run, queue, upd, job>>
      \/ <1>3!1 \/ <1>4!1 \/ <1>5!1 \/ <1>6!1
  BY DEF Recover
<1> QED
  BY <1>2, <1>3, <1>4, <1>5, <1>6, <1>7

LEMMA InitSound == Init => IInv
<1> SUFFICES ASSUME Init PROVE IInv
  OBVIOUS
<1>1. RunsTyped
  <2> DEFINE r == [status |-> "running", kind |-> "none", paused |-> FALSE, from |-> "none", why |-> "none"]
  <2>1. RunOK(r)
    BY DEF RunOK, RunType, RunStatuses, Why
  <2>2. run = [w \in Orders |-> r]
    BY DEF Init
  <2> HIDE DEF r
  <2> QED
    BY <2>1, <2>2 DEF RunsTyped, RunOK
<1>2. LineTyped
  BY DEF Init, LineTyped, InOrder, InLine, Ahead
<1>3. UpdatesFit /\ JobsTyped
  BY DEF Init, UpdatesFit, UpdFits, UpdateType, JobsTyped, JobType
<1>4. RowsTyped
  BY MergeAssumption DEF Init, RowsTyped, Features, WsFits, WorkspaceType
<1>5. /\ PlacesTyped
      /\ \A w \in Orders : pc[w]["owner"].at = "gate" /\ \A k \in Who : pc[w][k].at \in {"gate", "idle"}
  <2>1. Idle \in PlaceType /\ [Idle EXCEPT !.at = "gate"] \in PlaceType /\ Idle.at = "idle" /\ [Idle EXCEPT !.at = "gate"].at = "gate"
    BY DEF Idle, PlaceType, Steps
  <2> QED
    BY <2>1, StepsOfTheTypes DEF Init, PlacesTyped
<1>6. \A w \in Orders : OrderFits(w)
  <2> SUFFICES ASSUME NEW w \in Orders PROVE OrderFits(w)
    OBVIOUS
  <2>1. feature[w] = "ready_to_merge" /\ ws[w].merged = 0 /\ ws[w].forged = 0 /\ run[w].status = "running"
    BY DEF Init
  <2>2. ForgedFits(w) /\ InTimeFits(w) /\ Begun(w)
    BY <1>5, <2>1 DEF ForgedFits, InTimeFits, Begun
  <2>3. \A k \in Who : MergeFits(w, k)
    BY <1>5 DEF MergeFits, Merging
  <2> QED
    BY <2>2, <2>3 DEF OrderFits
<1>7. main = Cardinality(Forged)
  <2>1. Forged = {}
    BY DEF Init, Forged
  <2> QED
    BY <2>1, FS_EmptySet DEF Init
<1> QED
  BY <1>1, <1>2, <1>3, <1>4, <1>5, <1>6, <1>7 DEF IInv

LEMMA StutterKeeps ==
    ASSUME IInv, UNCHANGED vars
    PROVE  IInv'
<1>1. UNCHANGED <<run, feature, queue, main, ws, upd, validated, job, pc, mergeMu, late>>
  BY DEF vars
<1>2. ASSUME NEW w \in Orders PROVE OrderFits(w)'
  BY <1>1 DEF IInv, OrderFits, ForgedFits, InTimeFits, Begun, MergeFits, CommitFits, Passed, Updating
<1> QED
  BY <1>1, <1>2, Unwritten DEF IInv, RowsTyped, JobsTyped, Forged

LEMMA StepSound == IInv /\ [Next]_vars => IInv'
<1> SUFFICES ASSUME IInv, [Next]_vars PROVE IInv'
  OBVIOUS
<1>1. CASE UNCHANGED vars
  BY <1>1, StutterKeeps
<1>2. CASE AdvanceMergeQueue \/ Crash
  BY <1>2, AdvanceMergeQueueKeeps, CrashKeeps
<1>3. ASSUME NEW w \in Orders, NEW k \in Who, Work(w, k) PROVE IInv'
  BY <1>3, TakePlaceKeeps, BeginMergeKeeps, ReadApprovedKeeps, AskForgejoKeeps, MarkMergedKeeps, CompleteFeatureKeeps,
     FinishMergeKeeps, RefusedKeeps, StartBaseUpdateKeeps DEF Work
<1>4. ASSUME NEW w \in Orders, Own(w) PROVE IInv'
  BY <1>4, EnterMergeGateKeeps, RecordIntentKeeps, LeaveGateKeeps, AdmitUpdateKeeps, VerifyUpdateKeeps,
     ReviewAgainKeeps, ReadyToMergeKeeps, BlockUpdateKeeps DEF Own
<1>5. ASSUME NEW w \in Orders, Go(w) PROVE IInv'
  BY <1>3, <1>4, <1>5, ValidationPassedKeeps, RecoverKeeps, RecoverRunKeeps DEF Go
<1>6. ASSUME NEW w \in Orders, User(w) PROVE IInv'
  BY <1>6, UserMergeKeeps, PauseKeeps, ResumeKeeps, ContinueKeeps, RetryJobKeeps, CompleteJobKeeps DEF User
<1> QED
  BY <1>1, <1>2, <1>5, <1>6 DEF Next

-----------------------------------------------------------------------------
(* What the invariant says of the rows is what the runs show.              *)

LEMMA LeftAlone == IInv => MergedIsLeftAlone
<1> SUFFICES ASSUME IInv, NEW w \in Orders \ late, ws[w].merged # 0
             PROVE  /\ feature[w] # "reviewing" /\ ~Updating(w) /\ ws[w].head = ws[w].merged
                    /\ run[w].status = "succeeded" => feature[w] = "completed"
  BY DEF MergedIsLeftAlone
<1> QED
  BY DEF IInv, OrderFits, InTimeFits, ForgedFits

LEMMA SoundLine == IInv => LineIsSound
<1> SUFFICES ASSUME IInv PROVE LineIsSound
  OBVIOUS
<1>1. TypeOK
  <2>1. ASSUME NEW w \in Orders
        PROVE  /\ run[w].why \in Why
               /\ RunValid([status |-> run[w].status, kind |-> run[w].kind, paused |-> run[w].paused,
                            from |-> run[w].from, version |-> 1, limit |-> 0])
    <3>1. RunOK(run[w])
      BY DEF IInv, RunsTyped
    <3> QED
      BY <3>1 DEF RunOK, RunType, RunValid
  <2>2. ASSUME NEW w \in Orders
        PROVE  /\ feature[w] \in {"ready_to_merge", "reviewing", "completed"}
               /\ ws[w].forged \in 0 .. ws[w].head /\ ws[w].approved \in 0 .. ws[w].head /\ ws[w].base \in 0 .. main
    <3>1. feature[w] \in Features /\ WsFits(ws[w], main) /\ main \in Nat /\ ForgedFits(w)
      BY DEF IInv, RowsTyped, OrderFits
    <3> QED
      BY <3>1 DEF Features, WsFits, WorkspaceType, ForgedFits
  <2>3. ASSUME NEW w \in Orders
        PROVE  upd[w].verified <= upd[w].turn /\ upd[w].failed \subseteq 1 .. upd[w].turn
    BY DEF IInv, UpdatesFit, UpdFits
  <2>4. \A w \in Orders : \A k \in Who : pc[w][k].at \in Steps
    BY DEF IInv, PlacesTyped, PlaceType
  <2>5. InOrder(queue)
    BY DEF IInv, LineTyped
  <2> QED
    BY <2>1, <2>2, <2>3, <2>4, <2>5 DEF TypeOK
<1>2. MergedAsApproved
  <2>1. ASSUME NEW w \in Orders
        PROVE  /\ ws[w].merged # 0 => ws[w].merged = ws[w].approved /\ ws[w].merged = ws[w].forged
               /\ feature[w] = "completed" \/ run[w].status = "succeeded" => ws[w].merged # 0
    BY DEF IInv, OrderFits, ForgedFits
  <2>2. main = Cardinality({w \in Orders : ws[w].forged # 0})
    BY DEF IInv, Forged
  <2> QED
    BY <2>1, <2>2 DEF MergedAsApproved
<1>3. MergedAsValidated
  <2> SUFFICES ASSUME NEW w \in Orders \ late, validated, ws[w].merged # 0
               PROVE  job[w] = [commit |-> ws[w].merged, status |-> "passed"]
    BY DEF MergedAsValidated
  <2>1. Passed(w) /\ ws[w].merged = ws[w].approved /\ job[w] \in JobType
    BY DEF IInv, OrderFits, InTimeFits, ForgedFits, JobsTyped
  <2> QED
    BY <2>1 DEF Passed, JobType
<1> QED
  BY <1>1, <1>2, <1>3, LeftAlone DEF LineIsSound

\* What is recorded as merged is what Forgejo merged and what is approved; an
\* order ends only merged; what was merged in time had passed the project's
\* validation; and, whatever updates, users and restarts do between the steps
\* of a merge, an order that no update had begun on when it was recorded as
\* merged is not updated any more (workspace/service.go, base_update.go,
\* remote_lead.go's merge gate).
THEOREM LineStaysSound == Spec => []LineIsSound
<1>1. Init => IInv
  BY InitSound
<1>2. IInv /\ [Next]_vars => IInv'
  BY StepSound
<1>3. IInv => LineIsSound
  BY SoundLine
<1> QED
  BY <1>1, <1>2, <1>3, PTL DEF Spec

-----------------------------------------------------------------------------
(* Who merges.                                                             *)

\* A goroutine that does not take up its place leads no order to a merge.
LEMMA OthersLeadNowhere ==
    ASSUME PlacesTyped, NEW w \in Orders, NEW k \in Who, At(w, k, "place"), pc'[w][k].at = "merge",
           NEW v \in Orders, NEW l \in Who
    PROVE  /\ ~UNCHANGED pc /\ ~End(v, l)
           /\ \A step \in Steps : Goto(v, l, step) => step = "merge" /\ v = w /\ l = k
           /\ \A place : pc' = [pc EXCEPT ![v][l] = place] => v = w /\ l = k /\ place.at = "merge"
<1>1. \A place : pc' = [pc EXCEPT ![v][l] = place] => v = w /\ l = k /\ place.at = "merge"
  <2> SUFFICES ASSUME NEW place, pc' = [pc EXCEPT ![v][l] = place]
               PROVE  v = w /\ l = k /\ place.at = "merge"
    OBVIOUS
  <2>1. pc'[v][l] = place /\ (v # w \/ l # k => pc'[w][k] = pc[w][k])
    BY DEF PlacesTyped
  <2> QED
    BY <2>1 DEF At
<1>2. ~UNCHANGED pc
  BY DEF At
<1>3. ~End(v, l)
  BY <1>1, StepsOfTheTypes DEF End
<1>4. ASSUME NEW step \in Steps, Goto(v, l, step) PROVE step = "merge" /\ v = w /\ l = k
  <2> DEFINE place == [pc[v][l] EXCEPT !.at = step]
  <2>1. place.at = step
    BY GoneTo DEF PlacesTyped
  <2>2. pc' = [pc EXCEPT ![v][l] = place]
    BY <1>4 DEF Goto
  <2> HIDE DEF place
  <2> QED
    BY <1>1, <2>1, <2>2
<1> QED
  BY <1>1, <1>2, <1>3, <1>4

LEMMA MergeBeginsAtAPlace ==
    ASSUME IInv, Next, NEW w \in Orders, NEW k \in Who, At(w, k, "place"), pc'[w][k].at = "merge"
    PROVE  TakePlace(w, k)
<1>1. /\ PlacesTyped /\ {"owner", "free", "user"} = Who /\ pc[w][k] \in PlaceType
      /\ pc[w][k].at = "place" /\ "owner" \in Who /\ "free" \in Who /\ "user" \in Who
  BY StepsOfTheTypes DEF IInv, PlacesTyped, At
<1>2. ASSUME NEW v \in Orders, NEW l \in Who
      PROVE  /\ ~UNCHANGED pc /\ ~End(v, l)
             /\ \A step \in Steps : Goto(v, l, step) => step = "merge" /\ v = w /\ l = k
             /\ \A place : pc' = [pc EXCEPT ![v][l] = place] => v = w /\ l = k /\ place.at = "merge"
  BY <1>1, OthersLeadNowhere
<1>3. {"place", "merge", "mark", "complete", "finish", "update", "gate", "validated", "recover",
       "leave", "admit", "again", "ready"} \subseteq Steps
  BY DEF Steps, Updates
<1>4. ASSUME NEW step \in Steps
      PROVE  [Idle EXCEPT !.at = step].at = step /\ [Idle EXCEPT !.at = step, !.quiet = TRUE].at = step
  BY IdleAt
<1>5. ~AdvanceMergeQueue
  <2> SUFFICES ASSUME AdvanceMergeQueue PROVE FALSE
    OBVIOUS
  <2>1. pc'[w] = pc[w] \/ (At(w, "free", "idle") /\ pc'[w] = [pc[w] EXCEPT !["free"].at = "place"])
    BY DEF AdvanceMergeQueue
  <2>2. CASE pc'[w] = pc[w]
    BY <1>1, <2>2
  <2>3. CASE At(w, "free", "idle") /\ pc'[w] = [pc[w] EXCEPT !["free"].at = "place"]
    <3>1. k # "free"
      BY <1>1, <2>3 DEF At
    <3>2. pc'[w][k] = pc[w][k]
      BY <1>1, <2>3, <3>1 DEF PlacesTyped
    <3> QED
      BY <1>1, <3>2
  <2> QED
    BY <2>1, <2>2, <2>3
<1>6. ~Crash
  BY StepsOfTheTypes DEF Crash
<1>7. ASSUME NEW v \in Orders, User(v) PROVE FALSE
  <2>1. ~Pause(v) /\ ~RetryJob(v)
    BY <1>2, <1>1 DEF Pause, RetryJob
  <2>2. ~Resume(v) /\ ~Continue(v)
    <3>1. ~Resume(v)
      <4> DEFINE place == [Idle EXCEPT !.at = "recover", !.quiet = TRUE]
      <4>1. place.at = "recover"
        BY <1>3, <1>4
      <4>2. Resume(v) => UNCHANGED pc \/ pc' = [pc EXCEPT ![v]["free"] = place]
        BY DEF Resume
      <4> HIDE DEF place
      <4> QED
        BY <1>1, <1>2, <4>1, <4>2
    <3>2. ~Continue(v)
      BY <1>1, <1>2, <1>3 DEF Continue
    <3> QED
      BY <3>1, <3>2
  <2>3. ~UserMerge(v)
    BY <1>1, <1>2 DEF UserMerge, At
  <2>4. \A s \in {"passed", "failed"} : ~CompleteJob(v, s)
    BY <1>1, <1>2, <1>3 DEF CompleteJob
  <2> QED
    BY <1>7, <2>1, <2>2, <2>3, <2>4 DEF User
<1>8. ASSUME NEW v \in Orders, FailUpdate(v, "owner") PROVE FALSE
  BY <1>1, <1>2, <1>8 DEF FailUpdate
<1>9. ASSUME NEW v \in Orders, Own(v) PROVE FALSE
  <2>1. ~EnterMergeGate(v)
    BY <1>1, <1>2, <1>3 DEF EnterMergeGate
  <2>2. ~RecordIntent(v) /\ ~LeaveGate(v)
    BY <1>1, <1>2, <1>3, <1>8 DEF RecordIntent, LeaveGate
  <2>3. ~AdmitUpdate(v)
    <3>1. "turn" \in Steps
      BY DEF Steps, Updates
    <3> DEFINE place == [Idle EXCEPT !.at = "turn"]
    <3>2. place.at = "turn"
      BY <1>4, <3>1
    <3>3. AdmitUpdate(v) => FailUpdate(v, "owner") \/ pc' = [pc EXCEPT ![v]["owner"] = place]
      BY DEF AdmitUpdate
    <3> HIDE DEF place
    <3> QED
      BY <1>1, <1>2, <1>8, <3>2, <3>3
  <2>4. ~VerifyUpdate(v) /\ ~ReviewAgain(v) /\ ~ReadyToMerge(v) /\ ~BlockUpdate(v)
    BY <1>1, <1>2, <1>3 DEF VerifyUpdate, ReviewAgain, ReadyToMerge, BlockUpdate
  <2> QED
    BY <1>9, <2>1, <2>2, <2>3, <2>4 DEF Own
<1>10. ASSUME NEW v \in Orders, ValidationPassed(v) \/ Recover(v) \/ RecoverRun(v) PROVE FALSE
  <2>1. ~ValidationPassed(v)
    BY <1>1, <1>2, <1>3 DEF ValidationPassed
  <2>2. ~RecoverRun(v)
    <3> DEFINE place == [Idle EXCEPT !.at = "recover", !.quiet = TRUE]
    <3>1. place.at = "recover"
      BY <1>3, <1>4
    <3>2. RecoverRun(v) => pc' = [pc EXCEPT ![v]["free"] = place]
      BY DEF RecoverRun
    <3> HIDE DEF place
    <3> QED
      BY <1>1, <1>2, <3>1, <3>2
  <2>3. ~Recover(v)
    <3> SUFFICES ASSUME Recover(v) PROVE FALSE
      OBVIOUS
    <3>1. At(v, "free", "recover")
      BY DEF Recover
    <3>2. CASE \E step \in {"turn", "again"} :
                 pc' = [pc EXCEPT ![v]["owner"] = [Idle EXCEPT !.at = step], ![v]["free"] = Idle]
      <4>1. PICK step \in {"turn", "again"} :
              pc' = [pc EXCEPT ![v]["owner"] = [Idle EXCEPT !.at = step], ![v]["free"] = Idle]
        BY <3>2
      <4>2. [Idle EXCEPT !.at = step].at = step /\ Idle.at = "idle"
        BY <1>4, StepsOfTheTypes DEF Steps, Updates
      <4> DEFINE place == [Idle EXCEPT !.at = step]
      <4>3. pc' = [pc EXCEPT ![v]["owner"] = place, ![v]["free"] = Idle] /\ place.at = step
        BY <4>1, <4>2
      <4> HIDE DEF place
      <4>4. v = w => pc'[w][k] = pc[w][k] \/ pc'[w][k] = place \/ pc'[w][k] = Idle
        BY <1>1, <4>3 DEF PlacesTyped
      <4>5. v # w => pc'[w] = pc[w]
        BY <1>1, <4>3 DEF PlacesTyped
      <4> QED
        BY <1>1, <4>2, <4>3, <4>4, <4>5
    <3>3. End(v, "free") \/ Goto(v, "free", "update") \/ Goto(v, "free", "merge")
          \/ pc' = [pc EXCEPT ![v]["free"] = [Idle EXCEPT !.at = "place"]] \/ <3>2!1
      BY DEF Recover
    <3>4. ~Goto(v, "free", "merge")
      BY <1>1, <1>2, <1>3, <3>1 DEF At
    <3> QED
      BY <1>1, <1>2, <1>3, <1>4, <3>2, <3>3, <3>4
  <2> QED
    BY <1>10, <2>1, <2>2, <2>3
<1>11. ASSUME NEW v \in Orders, NEW l \in Who, NEW why, Refuse(v, l, why) PROVE FALSE
  <2>1. [Idle EXCEPT !.at = "refused", !.quiet = pc[v][l].quiet, !.saw = why].at = "refused"
    BY DEF Idle
  <2> QED
    BY <1>2, <1>11, <2>1 DEF Refuse
<1>12. ASSUME NEW v \in Orders, NEW l \in Who, Work(v, l), ~TakePlace(w, k) PROVE FALSE
  <2>1. ~TakePlace(v, l)
    <3> SUFFICES ASSUME TakePlace(v, l) PROVE FALSE
      OBVIOUS
    <3>1. End(v, l) \/ Goto(v, l, "merge")
      BY DEF TakePlace
    <3>2. v = w /\ l = k
      BY <1>2, <1>3, <3>1
    <3> QED
      BY <1>12, <3>2
  <2>2. ~BeginMerge(v, l)
    <3> SUFFICES ASSUME BeginMerge(v, l) PROVE FALSE
      OBVIOUS
    <3> DEFINE place == [pc[v][l] EXCEPT !.at = "read", !.saw = run[v].status, !.was = feature[v], !.passed = ws[v].approved]
    <3>1. place.at = "read"
      BY <1>1 DEF PlacesTyped, PlaceType
    <3>2. pc' = [pc EXCEPT ![v][l] = place]
      BY <1>2, <1>11 DEF BeginMerge
    <3> HIDE DEF place
    <3> QED
      BY <1>2, <3>1, <3>2
  <2>3. ~ReadApproved(v, l)
    <3> SUFFICES ASSUME ReadApproved(v, l) PROVE FALSE
      OBVIOUS
    <3>1. ~Goto(v, l, "complete")
      BY <1>2, <1>3
    <3> DEFINE place == [pc[v][l] EXCEPT !.at = "forge", !.commit = ws[v].approved]
    <3>2. place.at = "forge"
      BY <1>1 DEF PlacesTyped, PlaceType
    <3>3. pc' = [pc EXCEPT ![v][l].at = "forge", ![v][l].commit = ws[v].approved]
      BY <1>11, <3>1 DEF ReadApproved
    <3>4. pc' = [pc EXCEPT ![v][l] = place]
      BY <1>1, <3>3 DEF PlacesTyped, PlaceType
    <3> HIDE DEF place
    <3> QED
      BY <1>2, <3>2, <3>4
  <2>4. ~AskForgejo(v, l) /\ ~MarkMerged(v, l)
    BY <1>2, <1>3, <1>11 DEF AskForgejo, MarkMerged
  <2>5. ~CompleteFeature(v, l) /\ ~FinishMerge(v, l)
    BY <1>2, <1>3, <1>11 DEF CompleteFeature, FinishMerge
  <2>6. ~Refused(v, l)
    BY <1>2, <1>3, <1>4 DEF Refused
  <2>7. ~StartBaseUpdate(v, l)
    <3> SUFFICES ASSUME StartBaseUpdate(v, l) PROVE FALSE
      OBVIOUS
    <3> DEFINE found == [Idle EXCEPT !.at = "intent", !.quiet = pc[v][l].quiet, !.saw = run[v].status,
                                     !.was = feature[v], !.onto = main]
    <3>1. pc' = [pc EXCEPT ![v] = [j \in Who |-> IF j = "owner" THEN found ELSE IF j = l THEN Idle ELSE pc[v][j]]]
      BY <1>2 DEF StartBaseUpdate, FailUpdate
    <3>2. found.at = "intent" /\ Idle.at = "idle"
      BY DEF Idle
    <3> HIDE DEF found
    <3>3. v = w => pc'[w][k] = found \/ pc'[w][k] = Idle \/ pc'[w][k] = pc[w][k]
      BY <1>1, <3>1 DEF PlacesTyped
    <3>4. v # w => pc'[w] = pc[w]
      BY <3>1
    <3> QED
      BY <1>1, <3>2, <3>3, <3>4
  <2> QED
    BY <1>12, <2>1, <2>2, <2>3, <2>4, <2>5, <2>6, <2>7 DEF Work
<1> QED
  BY <1>5, <1>6, <1>7, <1>9, <1>10, <1>12 DEF Next, Go

\* In the line that a joining order finds, every order that waits is still there.
LEMMA NobodyIsPassed ==
    ASSUME LineTyped, NEW w \in Orders, ~run[w].paused, \A x \in Orders : ~Ahead(x, w, mergePlace(w)),
           NEW v \in Orders, v # w, AtGate(run[v]), ~run[v].paused, InLine(v, queue)
    PROVE  Ahead(w, v, queue)
<1> DEFINE line == Joined(w)
           S == {x \in Orders : Stays(x, \A y \in Orders : Ahead(y, x, line) => ~Stays(y, TRUE, w), w)}
<1>1. /\ InOrder(line) /\ InLine(w, line) /\ queue \subseteq line
      /\ Ahead(w, v, line) => Ahead(w, v, queue)
  BY JoinedKeepsOrder DEF LineTyped
<1>2. mergePlace(w) = Only(line, S)
  BY DEF mergePlace, mergeLine
<1>3. v \in S /\ w \in S
  BY DEF Stays
<1> HIDE DEF line, S
<1>4. <<v, w>> \in line \/ <<w, v>> \in line
  BY <1>1 DEF InOrder, InLine
<1>5. <<v, w>> \notin line
  BY <1>2, <1>3 DEF Ahead, Only
<1> QED
  BY <1>1, <1>4, <1>5 DEF Ahead

\* An order that merges on its own overtakes nobody who waits in front of it.
THEOREM FirstInLineAlwaysMerges == Spec => FirstInLineMerges
<1> DEFINE A == \A w \in Orders : \A k \in Who : (At(w, k, "place") /\ pc'[w][k].at = "merge" /\ ~run[w].paused) =>
                  \A v \in Orders \ {w} : (AtGate(run[v]) /\ ~run[v].paused /\ InLine(v, queue)) => Ahead(w, v, queue)
<1>1. IInv /\ [Next]_vars => [A]_vars
  <2> SUFFICES ASSUME IInv, Next PROVE A
    OBVIOUS
  <2>1. ASSUME NEW w \in Orders, NEW k \in Who, At(w, k, "place"), pc'[w][k].at = "merge", ~run[w].paused,
               NEW v \in Orders \ {w}, AtGate(run[v]), ~run[v].paused, InLine(v, queue)
        PROVE  Ahead(w, v, queue)
    <3>1. TakePlace(w, k)
      BY <2>1, MergeBeginsAtAPlace
    <3>2. PlacesTyped /\ LineTyped
      BY DEF IInv
    <3>3. ~End(w, k)
      BY <2>1, <3>2, OthersLeadNowhere
    <3>4. \A x \in Orders : ~Ahead(x, w, mergePlace(w))
      BY <3>1, <3>3 DEF TakePlace
    <3> QED
      BY <2>1, <3>2, <3>4, NobodyIsPassed
  <2> QED
    BY <2>1
<1>2. Init => IInv
  BY InitSound
<1>3. IInv /\ [Next]_vars => IInv'
  BY StepSound
<1> QED
  BY <1>1, <1>2, <1>3, PTL DEF Spec, FirstInLineMerges

================================================================================
