--------------------------- MODULE ReviewRoundsProofs ---------------------------
(***************************************************************************)
(* Proofs about ReviewRounds for any number of rounds, fixes, pauses,      *)
(* refusals, pushes, updates and restarts: what is ready to merge was      *)
(* approved and acknowledged at that very commit, what is merged is what   *)
(* was approved, every review has something to review anew, a run at work  *)
(* has somebody at work on it, and the fixes of what the desktop app finds *)
(* are limited.                                                            *)
(*                                                                         *)
(* Nothing but the rows says, at any later moment, that the reviewer's     *)
(* approval is still the one the lead was told of.  The invariant is about *)
(* who may be at work beside whom: while the lead answers an approval, or  *)
(* a commit is approved, no review is under way and none is about to be    *)
(* started.  Three parts are proved over it: Owned (whose goroutine goes   *)
(* on with a running run), Numbered (the turns' numbers) and Checked (only *)
(* the latest check of the approved commit is open, and a fix under way is *)
(* within the limit).                                                      *)
(***************************************************************************)
EXTENDS ReviewRounds, FiniteSetTheorems, WellFoundedInduction, TLAPS

-----------------------------------------------------------------------------
(* The invariant.                                                          *)

LeadKinds == {"implementation", "correction", "readiness", "update"}
ReviewerKinds == {"planning", "acceptance", "review"}
Places == {"idle", "turn", "verify", "join", "admit"}
Statuses == {"none", "pending", "passed", "failed"}

\* How often main was taken in is not bounded here: an update's number is left open.
AttemptOK(a) ==
    /\ a = [kind |-> a.kind, n |-> a.n] /\ a.kind \in Kinds
    /\ a.kind # "update" => a.n \in Nat \ {0}
ResultType == [commit : Nat, says : Facts]
Whys == {"none", "boundary", "refused", "rounds", "preview", "preview_failed", "no_desktop", "ready"}
RunType == [status : RunStatuses, kind : WaitKinds \cup {"none", "paused"}, paused : BOOLEAN,
            from : WaitKinds \cup {"none"}, why : Whys]
RunOK(r) == r \in RunType /\ (r.paused <=> r.kind = "paused")
TestsType == [commit : Nat, status : Statuses, ran : Nat]
BranchType == [head : Nat, approved : Nat, merged : Nat]
CheckType == [commit : Nat, attempt : Nat, status : {"pending", "late", "expired", "passed", "failed"}]

PcOK(p) ==
    /\ p = [r \in Roles |-> [at |-> p[r].at, next |-> p[r].next]]
    /\ \A r \in Roles : p[r].at \in Places

Typed ==
    /\ steps \in [review : BOOLEAN, tests : BOOLEAN, preview : BOOLEAN]
    /\ steps.tests => steps.review
    /\ RunOK(run)
    /\ feature \in {"implementing", "reviewing", "ready_to_merge", "completed"}
    /\ sess \in [Roles -> {"running", "waiting"}]
    /\ att = [r \in Roles |-> att[r]] /\ \A r \in Roles : AttemptOK(att[r])
    /\ att["lead"].kind \in LeadKinds /\ att["reviewer"].kind \in ReviewerKinds
    /\ result \in [Roles -> ResultType]
    /\ tests \in TestsType
    /\ branch \in BranchType
    /\ checks \subseteq CheckType
    /\ PcOK(pc)
    /\ intent \in BOOLEAN /\ down \in BOOLEAN

\* Where a role's goroutine is, beside the role's session.
PlacesFit ==
    /\ \A r \in Roles : /\ pc[r].at = "turn" => sess[r] = "running"
                        /\ pc[r].at \in {"verify", "join"} => sess[r] = "waiting"
                        /\ pc[r].at = "join" => steps.tests
                        /\ down => pc[r].at = "idle"
    /\ att["reviewer"].kind = "acceptance" => steps.tests
    /\ att["reviewer"].kind = "planning" => sess["reviewer"] = "waiting" /\ pc["reviewer"].at \in {"idle", "admit"}
    /\ pc["lead"].at = "admit" => AttemptOK(pc["lead"].next) /\ pc["lead"].next.kind \in LeadKinds
    /\ pc["reviewer"].at = "admit" => AttemptOK(pc["reviewer"].next) /\ pc["reviewer"].next.kind = "review"

\* Commits of turns, tests and approvals are behind the branch, or at its head.
CommitsBehind ==
    /\ \A r \in Roles : result[r].commit <= branch.head
    /\ branch.approved <= branch.head
    /\ tests.commit <= branch.head

\* The acceptance results are of the pinned commit, or of one that cannot be
\* approved any more; they come from a review.
TestsFit ==
    steps.tests =>
        /\ tests.status \in {"passed", "failed"} => tests.ran = tests.commit \/ tests.commit < branch.head
        /\ att["reviewer"].kind = "acceptance" => tests.status \in {"none", "pending"}
        /\ att["reviewer"].kind # "acceptance" \/ sess["reviewer"] = "waiting" => tests.status # "none"

\* Without a review the reviewer has no part in the run.
NoReviewer ==
    ~steps.review =>
        /\ att["reviewer"].kind = "planning" /\ sess["reviewer"] = "waiting" /\ pc["reviewer"].at = "idle"
        /\ att["lead"].kind \in {"implementation", "update"}
        /\ pc["lead"].at = "admit" => pc["lead"].next.kind \in {"implementation", "update"}

\* The reviewer's approval of round n is what was verified, and stands.
Approval(n) ==
    /\ att["reviewer"].kind = "review" /\ att["reviewer"].n = n
    /\ result["reviewer"].says = "approved" /\ sess["reviewer"] = "waiting"
    /\ Verified("review", n, result["reviewer"].commit, "approved") \in log
    /\ steps.tests => tests = [commit |-> result["reviewer"].commit, status |-> "passed",
                               ran |-> result["reviewer"].commit]

\* A review that is about to start is of a later round than the lead's answer.
ReviewStarts ==
    pc["reviewer"].at = "admit" =>
        /\ branch.approved = 0 /\ feature = "reviewing"
        /\ att["lead"].kind = "readiness" => pc["reviewer"].next.n > att["lead"].n
        /\ pc["lead"].at = "idle" \/ (pc["lead"].at = "join" /\ att["lead"].kind = "implementation")

\* The lead acknowledges an approval that stands, or one it has answered.
ReadinessHolds ==
    /\ att["lead"].kind = "readiness" =>
          /\ att["reviewer"].kind = "review" /\ att["reviewer"].n >= att["lead"].n
          /\ att["reviewer"].n = att["lead"].n => Approval(att["lead"].n) /\ pc["reviewer"].at \in {"idle", "admit"}
    /\ pc["lead"].at = "admit" /\ pc["lead"].next.kind = "readiness" =>
          Approval(pc["lead"].next.n) /\ pc["reviewer"].at = "idle"

\* Who is at work by how far the feature is.
FeatureFits ==
    /\ att["reviewer"].kind = "review" => feature # "implementing"
    /\ pc["lead"].at = "admit" /\ pc["lead"].next.kind = "implementation" => att["lead"].kind = "implementation"
    /\ steps.review /\ att["lead"].kind = "implementation" => feature \notin {"ready_to_merge", "completed"}
    /\ feature \in {"ready_to_merge", "completed"} =>
          \A r \in Roles : pc[r].at = "idle" /\ sess[r] = "waiting"
    /\ intent => /\ feature \in {"implementing", "reviewing"}
                 /\ \A r \in Roles : sess[r] = "waiting"
                 /\ pc["reviewer"].at = "idle" /\ pc["lead"].at \in {"idle", "admit"}
                 /\ pc["lead"].at = "admit" => pc["lead"].next.kind = "update"
                 /\ branch.approved # 0

\* What is approved.
ApprovalHolds ==
    branch.approved # 0 =>
      IF steps.review
      THEN /\ Approval(att["reviewer"].n) /\ result["reviewer"].commit = branch.approved
           /\ Verified("readiness", att["reviewer"].n, branch.approved, "ready") \in log
           /\ pc["reviewer"].at = "idle"
           /\ att["lead"].kind \in {"readiness", "update"}
           /\ att["lead"].kind = "readiness" => /\ sess["lead"] = "waiting" /\ pc["lead"].at \in {"idle", "admit"}
                                                /\ feature = "reviewing" => intent
           /\ pc["lead"].at = "admit" => pc["lead"].next.kind = "update"
           /\ pc["lead"].at # "join"
           /\ att["lead"].kind = "update" => result["lead"].commit # branch.approved
      ELSE \E v \in log : v.kind \in {"implementation", "update"} /\ v.commit = branch.approved

\* Something was to be reviewed anew in round n.
Called(n) == \E w \in log : \/ w.kind \in {"correction", "readiness"} /\ w.n = n - 1 /\ n <= RoundLimit
                            \/ w.kind = "update"
RoundsCalled ==
    /\ RoundsFollow
    /\ att["reviewer"].kind = "review" /\ att["reviewer"].n > 1 => Called(att["reviewer"].n)
    /\ pc["reviewer"].at = "admit" /\ pc["reviewer"].next.n > 1 => Called(pc["reviewer"].next.n)

\* The checks of a commit are one per attempt, and one of them is the latest.
ChecksFit ==
    /\ \A x, y \in checks : x.commit = y.commit /\ x.attempt = y.attempt => x = y
    /\ \A c \in {k.commit : k \in checks} : \E k \in Of(c) : \A x \in Of(c) : x.attempt <= k.attempt

\* Once merged, nothing goes on.
MergeHolds ==
    branch.merged # 0 =>
        /\ branch.merged = branch.approved /\ feature = "completed"
        /\ run.status = "succeeded" /\ ~run.paused /\ run.kind = "none"
        /\ steps.preview => CheckStatus(branch.merged) = "passed"

\* Implementation turns are verified one after the other, and once each while
\* the reviewer writes the acceptance tests.
ImplementationsFit ==
    /\ \A v \in log : v.kind = "implementation" => v.n \in Nat
    /\ att["lead"].kind = "implementation" =>
          \A v \in log : v.kind = "implementation" =>
             v.n <= att["lead"].n /\ (sess["lead"] = "running" => v.n < att["lead"].n)
    /\ pc["lead"].at = "admit" /\ pc["lead"].next.kind = "implementation" => pc["lead"].next.n > att["lead"].n
    /\ att["reviewer"].kind = "acceptance" /\ pc["reviewer"].at \in {"turn", "verify", "join"} =>
          /\ pc["lead"].at # "admit"
          /\ att["lead"].kind = "implementation" /\ pc["lead"].at = "verify" =>
                \A v \in log : v.kind = "implementation" => v.n < att["lead"].n

IInv == /\ Typed /\ PlacesFit /\ CommitsBehind /\ TestsFit /\ NoReviewer
        /\ ReviewStarts /\ ReadinessHolds /\ FeatureFits /\ ApprovalHolds
        /\ RoundsCalled /\ ImplementationsFit /\ ChecksFit /\ MergeHolds

-----------------------------------------------------------------------------
(* Places, rows and results.                                               *)

\* A role's goroutine at another place, and a turn that is to start after it.
Placed(r, p) == [pc EXCEPT ![r] = p]
Started(r, to, a) == [pc EXCEPT ![r] = Rest, ![to] = [at |-> "admit", next |-> a]]

LEMMA PcMoves ==
    ASSUME PcOK(pc), NEW r \in Roles, NEW p, p.at \in Places, p = [at |-> p.at, next |-> p.next]
    PROVE  PcOK(Placed(r, p)) /\ Placed(r, p)[r] = p /\ \A x \in Roles : x # r => Placed(r, p)[x] = pc[x]
<1> DEFINE q == [pc EXCEPT ![r] = p]
<1>1. DOMAIN pc = Roles
  BY DEF PcOK
<1>2. q[r] = p /\ \A x \in Roles : x # r => q[x] = pc[x]
  BY <1>1
<1>3. q = [x \in Roles |-> q[x]]
  BY <1>1
<1>4. \A x \in Roles : q[x] = [at |-> q[x].at, next |-> q[x].next] /\ q[x].at \in Places
  <2>1. \A x \in Roles : pc[x] = [at |-> pc[x].at, next |-> pc[x].next] /\ pc[x].at \in Places
    BY DEF PcOK
  <2> QED
    BY <1>2, <2>1
<1> HIDE DEF q
<1>5. PcOK(q)
  BY <1>3, <1>4 DEF PcOK
<1> QED
  BY <1>2, <1>5 DEF q, Placed

\* The goroutine of one role ends, and that of the other, or the same, is to start.
LEMMA PcStarts ==
    ASSUME PcOK(pc), NEW r \in Roles, NEW to \in Roles, NEW a
    PROVE  /\ PcOK(Started(r, to, a)) /\ Started(r, to, a)[to] = [at |-> "admit", next |-> a]
           /\ \A x \in Roles : x # to => Started(r, to, a)[x] = IF x = r THEN Rest ELSE pc[x]
<1> DEFINE w == [at |-> "admit", next |-> a]
           q == [pc EXCEPT ![r] = Rest, ![to] = w]
<1>1. DOMAIN pc = Roles
  BY DEF PcOK
<1>2. q[to] = w /\ \A x \in Roles : x # to => q[x] = IF x = r THEN Rest ELSE pc[x]
  BY <1>1
<1>3. q = [x \in Roles |-> q[x]]
  BY <1>1
<1>4. \A x \in Roles : q[x] = [at |-> q[x].at, next |-> q[x].next] /\ q[x].at \in Places
  <2>1. \A x \in Roles : pc[x] = [at |-> pc[x].at, next |-> pc[x].next] /\ pc[x].at \in Places
    BY DEF PcOK
  <2>2. Rest = [at |-> Rest.at, next |-> Rest.next] /\ Rest.at \in Places
    BY DEF Rest, Places
  <2>3. w = [at |-> w.at, next |-> w.next] /\ w.at \in Places
    BY DEF Places
  <2> QED
    BY <1>2, <2>1, <2>2, <2>3
<1> HIDE DEF q, w
<1>5. PcOK(q)
  BY <1>3, <1>4 DEF PcOK
<1> QED
  BY <1>2, <1>5 DEF q, w, Started

LEMMA RestIsIdle == Rest.at = "idle" /\ Rest.at \in Places /\ Rest = [at |-> Rest.at, next |-> Rest.next]
  BY DEF Rest, Places

\* The run's row after a move, a pause or its end.
LEMMA MovedOK ==
    ASSUME NEW row, RunOK(row), NEW to \in RunStatuses, NEW kind \in WaitKinds \cup {"none"}, NEW why \in Whys
    PROVE  /\ RunOK(Moved(row, to, kind, why)) /\ Moved(row, to, kind, why).status = to
           /\ to \in RunEnds => ~Moved(row, to, kind, why).paused /\ Moved(row, to, kind, why).kind = "none"
<1> DEFINE d == [run |-> row, ivs |-> <<>>]
           from == IF kind \in WaitKinds THEN kind ELSE row.from
           ended == [row EXCEPT !.status = to, !.paused = FALSE, !.kind = "none", !.from = "none"]
           held == [row EXCEPT !.status = to, !.kind = "paused", !.from = from]
           going == [row EXCEPT !.status = to, !.kind = kind, !.from = "none"]
           moved == IF to \in RunEnds THEN ended ELSE IF row.paused THEN held ELSE going
<1>1. TransitionRun(d, to, kind).run = moved
  BY DEF TransitionRun
<1>2. Moved(row, to, kind, why) = [moved EXCEPT !.why = why]
  BY <1>1 DEF Moved
<1>3. from \in WaitKinds \cup {"none"}
  BY DEF RunOK, RunType
<1> HIDE DEF from
<1>4. ended \in RunType /\ ended.status = to /\ ~ended.paused /\ ended.kind = "none"
  BY DEF RunOK, RunType
<1>5. held \in RunType /\ held.status = to /\ held.paused = row.paused /\ held.kind = "paused"
  BY <1>3 DEF RunOK, RunType
<1>6. going \in RunType /\ going.status = to /\ going.paused = row.paused /\ going.kind = kind
  BY DEF RunOK, RunType
<1>7. kind # "paused"
  BY DEF WaitKinds
<1> HIDE DEF ended, held, going
<1>8. moved \in RunType /\ moved.status = to /\ (moved.paused <=> moved.kind = "paused")
  BY <1>4, <1>5, <1>6, <1>7
<1>9. to \in RunEnds => ~moved.paused /\ moved.kind = "none"
  BY <1>4
<1> HIDE DEF moved
<1>10. /\ [moved EXCEPT !.why = why] \in RunType /\ [moved EXCEPT !.why = why].status = moved.status
       /\ [moved EXCEPT !.why = why].paused = moved.paused /\ [moved EXCEPT !.why = why].kind = moved.kind
  BY <1>8 DEF RunType
<1> QED
  BY <1>2, <1>8, <1>9, <1>10 DEF RunOK

LEMMA WaitsOK ==
    ASSUME NEW row, RunOK(row)
    PROVE  /\ \A kind \in WaitKinds, why \in Whys : Waits(row, kind, why) => RunOK(run')
           /\ Runs(row) => RunOK(run')
<1>1. "waiting" \in RunStatuses /\ "running" \in RunStatuses /\ "none" \in WaitKinds \cup {"none"} /\ "none" \in Whys
  BY DEF RunStatuses, Whys
<1>2. \A kind \in WaitKinds, why \in Whys : RunOK(Moved(row, "waiting", kind, why))
  BY <1>1, MovedOK
<1>3. RunOK(Moved(row, "running", "none", "none"))
  BY <1>1, MovedOK
<1> QED
  BY <1>2, <1>3 DEF Waits, Runs

\* The waits the handlers make.
LEMMA WaitsMade ==
    ASSUME RunOK(run)
    PROVE  /\ \A r : RequireReview(r) => RunOK(run') /\ Done(r)
           /\ \A r : StopAtPauseBoundary(r) => RunOK(run') /\ Done(r)
           /\ waitRun("round_cap", "rounds") => RunOK(run')
           /\ waitRun("phase_checkpoint", "boundary") => RunOK(run')
           /\ waitRun("blocker", "no_desktop") => RunOK(run')
<1>1. {"blocker", "phase_checkpoint", "round_cap"} \subseteq WaitKinds
  BY DEF WaitKinds
<1>2. {"refused", "boundary", "rounds", "no_desktop"} \subseteq Whys
  BY DEF Whys
<1>3. \A kind \in WaitKinds, why \in Whys : waitRun(kind, why) => RunOK(run')
  BY WaitsOK DEF waitRun
<1> QED
  BY <1>1, <1>2, <1>3 DEF RequireReview, StopAtPauseBoundary

LEMMA PausedOK ==
    ASSUME RunOK(run)
    PROVE  RunOK(Paused(run)) /\ RunOK(Unpaused(run))
<1> DEFINE from == IF run.status = "waiting" THEN run.kind ELSE run.from
           p == [run EXCEPT !.paused = TRUE, !.kind = "paused", !.from = from]
           kind == IF run.status # "waiting" THEN "none" ELSE IF run.from = "none" THEN "blocker" ELSE run.from
           u == [run EXCEPT !.paused = FALSE, !.from = "none", !.kind = kind]
<1>1. ~run.paused => from \in WaitKinds \cup {"none"}
  BY DEF RunOK, RunType
<1>2. kind \in WaitKinds \cup {"none"} /\ kind # "paused"
  BY DEF RunOK, RunType, WaitKinds
<1>3. Paused(run) = IF run.paused THEN run ELSE p
  BY DEF Paused
<1>4. Unpaused(run) = u
  BY DEF Unpaused
<1> HIDE DEF from, kind
<1>5. ~run.paused => p \in RunType /\ p.paused /\ p.kind = "paused"
  BY <1>1 DEF RunOK, RunType
<1>6. u \in RunType /\ ~u.paused /\ u.kind = kind
  BY <1>2 DEF RunOK, RunType
<1> QED
  BY <1>2, <1>3, <1>4, <1>5, <1>6 DEF RunOK

\* Results that start over are pending, and of an earlier commit otherwise.
LEMMA PinnedFits ==
    ASSUME tests \in TestsType, NEW n, NEW c \in Nat, c <= branch.head, branch \in BranchType,
           tests.commit <= branch.head
    PROVE  /\ Pinned(n, c) \in TestsType /\ Pinned(n, c).commit <= branch.head
           /\ Pinned(n, c) = tests \/ (Pinned(n, c).status = "pending" /\ tests.commit # c)
  BY DEF Pinned, TestsType, Statuses

\* What is called for stays called for.
LEMMA CalledStays ==
    ASSUME log \subseteq log', NEW n, Called(n)
    PROVE  Called(n)'
  BY DEF Called

\* A role's handler adds events; one of an implementation is of the lead's turn.
NewEvents(r) ==
    /\ log \subseteq log'
    /\ \A v \in log' : v \in log \/ (v.kind = "implementation" =>
                                        r = "lead" /\ att["lead"].kind = "implementation" /\ v.n = att["lead"].n)

-----------------------------------------------------------------------------
(* A turn's end that starts nothing.                                       *)

\* A goroutine ends; results may start over when nothing is approved, and an
\* approval may be taken back.
LEMMA StopKeeps ==
    ASSUME IInv, NEW r \in Roles, pc[r].at \in {"verify", "join", "admit"},
           Done(r), RunOK(run'), NewEvents(r), RoundsFollow', pc[r].at = "admit" => log' = log,
           UNCHANGED <<steps, feature, sess, att, result, checks, intent, down>>,
           branch' = branch \/ (pc[r].at = "verify" /\ branch' = [branch EXCEPT !.approved = 0]),
           tests' = tests \/ (/\ tests' \in TestsType /\ tests'.commit <= branch.head /\ TestsFit'
                              /\ branch'.approved = 0 /\ att["lead"].kind # "readiness"
                              /\ r = "lead" \/ att["reviewer"].kind # "review")
    PROVE  IInv'
<1>1. /\ PcOK(pc') /\ pc'[r] = Rest /\ \A x \in Roles : x # r => pc'[x] = pc[x]
      /\ pc'[r].at = "idle"
  <2>1. PcOK(pc) /\ pc' = Placed(r, Rest)
    BY DEF IInv, Typed, Done, Placed
  <2> QED
    BY <2>1, PcMoves, RestIsIdle
<1>2. /\ branch' \in BranchType /\ branch'.head = branch.head /\ branch'.merged = branch.merged
      /\ branch'.approved \in {0, branch.approved}
  BY DEF IInv, Typed, BranchType
<1>3. "lead" \in Roles /\ "reviewer" \in Roles /\ \A x \in Roles : x = "lead" \/ x = "reviewer"
  BY DEF Roles
<1>4. feature \notin {"ready_to_merge", "completed"} /\ branch.merged = 0
  BY DEF IInv, FeatureFits, MergeHolds
<1>5. \A x \in Roles : pc'[x].at \in {"idle", pc[x].at} /\ (pc'[x].at # "idle" => pc'[x] = pc[x])
  BY <1>1
<1>6. intent => branch' = branch
  BY <1>3 DEF IInv, FeatureFits
<1>7. \A n : Approval(n) /\ tests' = tests => Approval(n)'
  BY DEF Approval, NewEvents
<1>8. \A n : Called(n) => Called(n)'
  BY CalledStays DEF NewEvents
<1>9. Typed'
  BY <1>1, <1>2 DEF IInv, Typed
<1>10. PlacesFit'
  BY <1>3, <1>5 DEF IInv, PlacesFit
<1>11. CommitsBehind'
  BY <1>2 DEF IInv, CommitsBehind, Typed, BranchType
<1>12. TestsFit'
  BY <1>2 DEF IInv, TestsFit
<1>13. NoReviewer'
  BY <1>3, <1>5 DEF IInv, NoReviewer
<1>14. ReviewStarts'
  BY <1>2, <1>3, <1>5 DEF IInv, ReviewStarts
<1>15. ReadinessHolds'
  <2>1. att["lead"].kind = "readiness" => tests' = tests
    OBVIOUS
  <2>2. pc'["lead"].at = "admit" /\ pc'["lead"].next.kind = "readiness" => tests' = tests
    BY <1>3, <1>5, <1>1 DEF IInv, ReadinessHolds, Approval
  <2> QED
    BY <2>1, <2>2, <1>3, <1>5, <1>7 DEF IInv, ReadinessHolds
<1>16. FeatureFits'
  BY <1>3, <1>4, <1>5, <1>6 DEF IInv, FeatureFits
<1>17. ApprovalHolds'
  <2>1. branch'.approved # 0 => tests' = tests /\ branch'.approved = branch.approved
    BY <1>2
  <2> QED
    BY <2>1, <1>3, <1>5, <1>7 DEF IInv, ApprovalHolds, NewEvents
<1>18. RoundsCalled'
  BY <1>3, <1>5, <1>8 DEF IInv, RoundsCalled
<1>19. ChecksFit'
  BY DEF IInv, ChecksFit, Of
<1>20. MergeHolds'
  BY <1>2, <1>4 DEF MergeHolds
<1>21. ImplementationsFit'
  <2>1. r = "lead" => sess["lead"] = "waiting" \/ \A v \in log' : v \in log \/ v.kind # "implementation"
    BY DEF IInv, PlacesFit, NewEvents
  <2> QED
    BY <2>1, <1>1, <1>3, <1>5 DEF IInv, ImplementationsFit, NewEvents, Typed, AttemptOK
<1> QED
  BY <1>9, <1>10, <1>11, <1>12, <1>13, <1>14, <1>15, <1>16, <1>17, <1>18, <1>19, <1>20, <1>21 DEF IInv

-----------------------------------------------------------------------------
(* A turn's end that starts another.                                       *)

\* Round n of the review starts, of something that is new since the last.
LEMMA LaunchReviewKeeps ==
    ASSUME IInv, NEW r \in Roles, pc[r].at \in {"verify", "join"}, steps.review, NEW n \in Nat \ {0},
           Next1(r, "reviewer", Attempt("review", n)), NewEvents(r), RoundsFollow',
           UNCHANGED <<steps, sess, att, result, checks, intent, down>>,
           branch' \in BranchType, branch'.head = branch.head, branch'.merged = branch.merged, branch'.approved = 0,
           feature' = "reviewing",
           tests' \in TestsType, tests'.commit <= branch.head, TestsFit',
           att["lead"].kind = "readiness" => tests' = tests /\ n > att["lead"].n,
           n > 1 => Called(n)',
           r = "reviewer" => att["lead"].kind = "implementation" /\ pc["lead"].at \in {"idle", "join"}
    PROVE  IInv'
<1> DEFINE a == Attempt("review", n)
<1>1. /\ PcOK(pc') /\ pc'["reviewer"] = [at |-> "admit", next |-> a]
      /\ pc'["lead"] = IF r = "lead" THEN Rest ELSE pc["lead"]
  <2>1. PcOK(pc) /\ pc' = Started(r, "reviewer", a)
    BY DEF IInv, Typed, Next1, Started
  <2>2. "reviewer" \in Roles /\ "lead" \in Roles
    BY DEF Roles
  <2> HIDE DEF a
  <2> QED
    BY <2>1, <2>2, PcStarts
<1>2. a = [kind |-> "review", n |-> n] /\ AttemptOK(a) /\ a.kind = "review" /\ a.n = n
  BY DEF Attempt, AttemptOK, Kinds
<1>3. "lead" \in Roles /\ "reviewer" \in Roles /\ \A x \in Roles : x = "lead" \/ x = "reviewer"
  BY DEF Roles
<1>4. /\ feature \notin {"ready_to_merge", "completed"} /\ branch.merged = 0 /\ ~intent /\ ~down
      /\ sess[r] = "waiting"
  BY <1>3 DEF IInv, FeatureFits, MergeHolds, PlacesFit
<1>5. pc'["lead"].at = "idle" \/ (pc'["lead"] = pc["lead"] /\ pc["lead"].at = "join" /\ att["lead"].kind = "implementation")
  BY <1>1, <1>3, RestIsIdle
<1> HIDE DEF a
<1>6. pc'["reviewer"].at = "admit" /\ pc'["reviewer"].next = a
  BY <1>1
<1>7. \A m : Approval(m) /\ tests' = tests => Approval(m)'
  BY DEF Approval, NewEvents
<1>8. \A m : Called(m) => Called(m)'
  BY CalledStays DEF NewEvents
<1>9. Typed'
  BY <1>1, <1>4 DEF IInv, Typed, Next1
<1>10. PlacesFit'
  BY <1>2, <1>3, <1>4, <1>5, <1>6 DEF IInv, PlacesFit
<1>11. CommitsBehind'
  BY DEF IInv, CommitsBehind, Typed, BranchType
<1>12. NoReviewer'
  BY DEF NoReviewer
<1>13. ReviewStarts'
  BY <1>2, <1>5, <1>6 DEF ReviewStarts
<1>14. ReadinessHolds'
  BY <1>5, <1>6, <1>7 DEF IInv, ReadinessHolds
<1>15. FeatureFits'
  BY <1>3, <1>4, <1>5, <1>6 DEF IInv, FeatureFits
<1>16. ApprovalHolds'
  BY DEF ApprovalHolds
<1>17. RoundsCalled'
  BY <1>2, <1>6, <1>8 DEF IInv, RoundsCalled
<1>18. ImplementationsFit'
  BY <1>3, <1>4, <1>5, <1>6 DEF IInv, ImplementationsFit, NewEvents, Typed, AttemptOK
<1>19. ChecksFit'
  BY DEF IInv, ChecksFit, Of
<1>20. MergeHolds'
  BY <1>4 DEF MergeHolds
<1> QED
  BY <1>9, <1>10, <1>11, <1>12, <1>13, <1>14, <1>15, <1>16, <1>17, <1>18, <1>19, <1>20 DEF IInv

\* The lead is to answer the review of round n that was just verified.
LEMMA LaunchAnswerKeeps ==
    ASSUME IInv, pc["reviewer"].at = "verify", att["reviewer"].kind = "review",
           NEW kind \in {"readiness", "correction"}, NEW n \in Nat \ {0},
           Next1("reviewer", "lead", Attempt(kind, n)), NewEvents("reviewer"), RoundsFollow',
           UNCHANGED <<steps, feature, sess, att, result, tests, branch, checks, intent, down>>,
           kind = "readiness" => Approval(n)'
    PROVE  IInv'
<1> DEFINE a == Attempt(kind, n)
<1>1. /\ PcOK(pc') /\ pc'["lead"] = [at |-> "admit", next |-> a] /\ pc'["reviewer"] = Rest
  <2>1. PcOK(pc) /\ pc' = Started("reviewer", "lead", a)
    BY DEF IInv, Typed, Next1, Started
  <2>2. "reviewer" \in Roles /\ "lead" \in Roles
    BY DEF Roles
  <2> HIDE DEF a
  <2> QED
    BY <2>1, <2>2, PcStarts
<1>2. a = [kind |-> kind, n |-> n] /\ AttemptOK(a) /\ a.kind = kind /\ a.n = n
  BY DEF Attempt, AttemptOK, Kinds
<1>3. "lead" \in Roles /\ "reviewer" \in Roles /\ \A x \in Roles : x = "lead" \/ x = "reviewer"
  BY DEF Roles
<1>4. steps.review /\ branch.approved = 0
  BY DEF IInv, NoReviewer, ApprovalHolds
<1>5. /\ feature \notin {"ready_to_merge", "completed"} /\ branch.merged = 0 /\ ~intent /\ ~down
  BY <1>3 DEF IInv, FeatureFits, MergeHolds, PlacesFit
<1> HIDE DEF a
<1>6. pc'["lead"].at = "admit" /\ pc'["lead"].next = a /\ pc'["reviewer"].at = "idle"
  BY <1>1, RestIsIdle
<1>7. \A m : Approval(m) => Approval(m)'
  BY DEF Approval, NewEvents
<1>8. \A m : Called(m) => Called(m)'
  BY CalledStays DEF NewEvents
<1>9. Typed'
  BY <1>1 DEF IInv, Typed, Next1
<1>10. PlacesFit'
  BY <1>2, <1>3, <1>5, <1>6 DEF IInv, PlacesFit, LeadKinds
<1>11. CommitsBehind' /\ TestsFit'
  BY DEF IInv, CommitsBehind, TestsFit
<1>12. NoReviewer'
  BY <1>4 DEF NoReviewer
<1>13. ReviewStarts'
  BY <1>6 DEF ReviewStarts
<1>14. ReadinessHolds'
  BY <1>2, <1>6, <1>7 DEF IInv, ReadinessHolds
<1>15. FeatureFits'
  BY <1>2, <1>3, <1>5, <1>6 DEF IInv, FeatureFits
<1>16. ApprovalHolds'
  BY <1>4 DEF ApprovalHolds
<1>17. RoundsCalled'
  BY <1>6, <1>8 DEF IInv, RoundsCalled
<1>18. ImplementationsFit'
  BY <1>2, <1>3, <1>6 DEF IInv, ImplementationsFit, NewEvents
<1>19. ChecksFit'
  BY DEF IInv, ChecksFit, Of
<1>20. MergeHolds'
  BY <1>5 DEF MergeHolds
<1> QED
  BY <1>9, <1>10, <1>11, <1>12, <1>13, <1>14, <1>15, <1>16, <1>17, <1>18, <1>19, <1>20 DEF IInv

-----------------------------------------------------------------------------
(* Preview checks and the gate.                                            *)

LEMMA LatestIsLatest ==
    ASSUME ChecksFit, NEW c, Of(c) # {}
    PROVE  LatestCheck(c) \in Of(c) /\ \A x \in Of(c) : x.attempt <= LatestCheck(c).attempt
<1>1. PICK k \in checks : k.commit = c
  BY DEF Of
<1>2. \E k2 \in Of(c) : \A x \in Of(c) : x.attempt <= k2.attempt
  BY <1>1 DEF ChecksFit
<1> QED
  BY <1>2 DEF LatestCheck

\* A check that changes how it stands keeps its commit and its attempt.
Restated(k, done) == (checks \ {k}) \cup {done}

LEMMA RestatedFits ==
    ASSUME checks \subseteq CheckType, ChecksFit, NEW k \in checks, NEW done \in CheckType,
           done.commit = k.commit, done.attempt = k.attempt
    PROVE  checks' = Restated(k, done) => checks' \subseteq CheckType /\ ChecksFit'
<1> SUFFICES ASSUME checks' = Restated(k, done)
             PROVE  checks' \subseteq CheckType /\ ChecksFit'
  OBVIOUS
<1>1. \A x \in checks' : x = done \/ (x \in checks /\ x # k)
  BY DEF Restated
<1>2. done \in checks' /\ \A x \in checks : x # k => x \in checks'
  BY DEF Restated
<1>3. \A x, y \in checks' : x.commit = y.commit /\ x.attempt = y.attempt => x = y
  BY <1>1 DEF ChecksFit
<1>4. ASSUME NEW c \in {x.commit : x \in checks'}
      PROVE  \E m \in checks' : m.commit = c /\ \A x \in checks' : x.commit = c => x.attempt <= m.attempt
  <2>1. PICK k0 \in checks : k0.commit = c
    BY <1>1, <1>4
  <2>2. PICK m \in checks : m.commit = c /\ \A x \in checks : x.commit = c => x.attempt <= m.attempt
    BY <2>1 DEF ChecksFit, Of
  <2>3. CASE m = k
    BY <1>1, <1>2, <2>2, <2>3
  <2>4. CASE m # k
    BY <1>1, <1>2, <2>2, <2>4
  <2> QED
    BY <2>3, <2>4
<1>5. checks' \subseteq CheckType
  BY <1>1
<1> QED
  BY <1>3, <1>4, <1>5 DEF ChecksFit, Of

LEMMA RequestedFits ==
    ASSUME checks \subseteq CheckType, ChecksFit, NEW c \in Nat, checks' = Requested(c)
    PROVE  checks' \subseteq CheckType /\ ChecksFit'
<1> DEFINE new == Check(c, 1, "pending")
           late == LatestCheck(c)
           expired == [late EXCEPT !.status = "expired"]
           next == Check(c, late.attempt + 1, "pending")
<1>1. CheckStatus(c) = "none" <=> Of(c) = {}
  <2>1. ASSUME Of(c) # {} PROVE late.status # "none"
    <3>1. late \in checks
      BY <2>1, LatestIsLatest DEF Of
    <3> QED
      BY <3>1 DEF CheckType
  <2> QED
    BY <2>1 DEF CheckStatus
<1>2. CASE CheckStatus(c) = "none"
  <2>1. checks' = checks \cup {new}
    BY <1>2 DEF Requested
  <2>2. new \in CheckType /\ new.commit = c /\ new.attempt = 1
    BY DEF Check, CheckType
  <2>3. \A x \in checks : x.commit # c
    BY <1>1, <1>2 DEF Of
  <2> HIDE DEF new
  <2>4. \A x, y \in checks' : x.commit = y.commit /\ x.attempt = y.attempt => x = y
    BY <2>1, <2>2, <2>3 DEF ChecksFit
  <2>5. ASSUME NEW d \in {x.commit : x \in checks'}
        PROVE  \E m \in checks' : m.commit = d /\ \A x \in checks' : x.commit = d => x.attempt <= m.attempt
    <3>1. CASE d = c
      BY <2>1, <2>2, <2>3, <3>1
    <3>2. CASE d # c
      <4>1. PICK m \in checks : m.commit = d /\ \A x \in checks : x.commit = d => x.attempt <= m.attempt
        BY <2>1, <2>2, <2>5, <3>2 DEF ChecksFit, Of
      <4> QED
        BY <2>1, <2>2, <3>2, <4>1
    <3> QED
      BY <3>1, <3>2
  <2> QED
    BY <2>1, <2>2, <2>4, <2>5 DEF ChecksFit, Of
<1>3. CASE CheckStatus(c) = "late"
  <2>1. checks' = (checks \ {late}) \cup {expired, next}
    BY <1>3 DEF Requested
  <2>2. late \in checks /\ late.commit = c /\ \A x \in checks : x.commit = c => x.attempt <= late.attempt
    BY <1>1, <1>3, LatestIsLatest DEF Of
  <2>3. late \in CheckType
    BY <2>2
  <2> HIDE DEF late
  <2>4. expired \in CheckType /\ expired.commit = c /\ expired.attempt = late.attempt
    BY <2>2, <2>3 DEF CheckType
  <2>5. next \in CheckType /\ next.commit = c /\ next.attempt = late.attempt + 1
    BY <2>3 DEF CheckType, Check
  <2> HIDE DEF expired, next
  <2>6. \A x \in checks' : x = next \/ x = expired \/ (x \in checks /\ x # late)
    BY <2>1
  <2>7. next \in checks' /\ \A x \in checks : x # late => x \in checks'
    BY <2>1
  <2>8. late.attempt \in Nat /\ \A x \in checks : x.attempt \in Nat
    BY <2>3 DEF CheckType
  <2>9. \A x, y \in checks' : x.commit = y.commit /\ x.attempt = y.attempt => x = y
    BY <2>2, <2>4, <2>5, <2>6, <2>8 DEF ChecksFit
  <2>10. ASSUME NEW d \in {x.commit : x \in checks'}
        PROVE  \E m \in checks' : m.commit = d /\ \A x \in checks' : x.commit = d => x.attempt <= m.attempt
    <3>1. CASE d = c
      BY <2>2, <2>4, <2>5, <2>6, <2>7, <2>8, <3>1
    <3>2. CASE d # c
      <4>1. PICK m \in checks : m.commit = d /\ \A x \in checks : x.commit = d => x.attempt <= m.attempt
        BY <2>4, <2>5, <2>6, <2>10, <3>2 DEF ChecksFit, Of
      <4> QED
        BY <2>2, <2>4, <2>5, <2>6, <2>7, <3>2, <4>1
    <3> QED
      BY <3>1, <3>2
  <2>11. checks' \subseteq CheckType
    BY <2>4, <2>5, <2>6
  <2> QED
    BY <2>9, <2>10, <2>11 DEF ChecksFit, Of
<1>4. CASE CheckStatus(c) \notin {"none", "late"}
  <2>1. checks' = checks
    BY <1>4 DEF Requested
  <2> QED
    BY <2>1 DEF ChecksFit, Of
<1> QED
  BY <1>2, <1>3, <1>4

LEMMA AtTheGateKeeps ==
    ASSUME checks \subseteq CheckType, ChecksFit, NEW row, RunOK(row), NEW c \in Nat, AtTheGate(row, c)
    PROVE  RunOK(run') /\ checks' \subseteq CheckType /\ ChecksFit'
<1>1. {"blocker", "merge_gate"} \subseteq WaitKinds /\ {"preview_failed", "preview", "ready"} \subseteq Whys
  BY DEF WaitKinds, Whys
<1>2. RunOK(run')
  BY <1>1, WaitsOK DEF AtTheGate
<1>3. CASE checks' = checks
  BY <1>2, <1>3 DEF ChecksFit, Of
<1>4. CASE checks' = Requested(c)
  BY <1>2, <1>4, RequestedFits
<1> QED
  BY <1>3, <1>4 DEF AtTheGate

\* The lead's handler approves the commit at the head, which the reviewer, if
\* there is one, approves of and the lead acknowledges.
LEMMA GateKeeps ==
    ASSUME IInv, pc["lead"].at = "verify", EnterMergeGate("lead", branch.head),
           NewEvents("lead"), RoundsFollow',
           UNCHANGED <<steps, sess, att, result, tests, intent, down>>,
           IF steps.review
           THEN /\ att["lead"].kind = "readiness" /\ att["reviewer"].n = att["lead"].n
                /\ result["reviewer"].commit = branch.head
                /\ Verified("readiness", att["lead"].n, branch.head, "ready") \in log'
           ELSE \E v \in log' : v.kind \in {"implementation", "update"} /\ v.commit = branch.head
    PROVE  IInv'
<1>1. /\ branch' = [branch EXCEPT !.approved = branch.head] /\ feature' = "ready_to_merge" /\ Done("lead")
      /\ IF run.paused THEN waitRun("phase_checkpoint", "boundary") /\ UNCHANGED checks
         ELSE AtTheGate(run, branch.head)
  BY DEF EnterMergeGate, Tip
<1>2. branch.head \in Nat /\ RunOK(run) /\ checks \subseteq CheckType /\ ChecksFit
  BY DEF IInv, Typed, BranchType
<1>3. RunOK(run') /\ checks' \subseteq CheckType /\ ChecksFit'
  <2>1. CASE run.paused
    BY <1>1, <1>2, <2>1, WaitsMade DEF ChecksFit, Of
  <2>2. CASE ~run.paused
    BY <1>1, <1>2, <2>2, AtTheGateKeeps
  <2> QED
    BY <2>1, <2>2
<1>4. "lead" \in Roles /\ "reviewer" \in Roles /\ \A x \in Roles : x = "lead" \/ x = "reviewer"
  BY DEF Roles
<1>5. PcOK(pc') /\ pc'["lead"].at = "idle" /\ pc'["reviewer"] = pc["reviewer"]
  <2>1. PcOK(pc) /\ pc' = Placed("lead", Rest)
    BY <1>1 DEF IInv, Typed, Done, Placed
  <2> QED
    BY <2>1, <1>4, PcMoves, RestIsIdle
<1>6. /\ branch' \in BranchType /\ branch'.head = branch.head /\ branch'.merged = branch.merged
      /\ branch'.approved = branch.head
  BY <1>1 DEF IInv, Typed, BranchType
<1>7. /\ feature \notin {"ready_to_merge", "completed"} /\ branch.merged = 0 /\ ~intent /\ ~down
      /\ sess["lead"] = "waiting"
  BY <1>4 DEF IInv, FeatureFits, MergeHolds, PlacesFit
<1>8. steps.review => Approval(att["reviewer"].n) /\ pc["reviewer"].at = "idle" /\ sess["reviewer"] = "waiting"
  BY DEF IInv, ReadinessHolds, ReviewStarts, Approval
<1>9. ~steps.review => pc["reviewer"].at = "idle" /\ sess["reviewer"] = "waiting"
  BY DEF IInv, NoReviewer
<1>10. \A m : Approval(m) => Approval(m)'
  BY DEF Approval, NewEvents
<1>11. \A m : Called(m) => Called(m)'
  BY CalledStays DEF NewEvents
<1>12. Typed'
  BY <1>1, <1>3, <1>5, <1>6 DEF IInv, Typed
<1>13. PlacesFit'
  BY <1>4, <1>5, <1>7, <1>8, <1>9 DEF IInv, PlacesFit
<1>14. CommitsBehind'
  BY <1>2, <1>6 DEF IInv, CommitsBehind
<1>15. TestsFit'
  BY <1>6 DEF IInv, TestsFit
<1>16. NoReviewer'
  BY <1>5 DEF IInv, NoReviewer
<1>17. ReviewStarts'
  BY <1>5, <1>8, <1>9 DEF ReviewStarts
<1>18. ReadinessHolds'
  BY <1>5, <1>10 DEF IInv, ReadinessHolds
<1>19. FeatureFits'
  BY <1>1, <1>4, <1>5, <1>7, <1>8, <1>9 DEF IInv, FeatureFits, NoReviewer
<1>20. ApprovalHolds'
  BY <1>1, <1>5, <1>6, <1>7, <1>8, <1>10 DEF IInv, ApprovalHolds
<1>21. RoundsCalled'
  BY <1>5, <1>11 DEF IInv, RoundsCalled
<1>22. ImplementationsFit'
  BY <1>4, <1>5, <1>7, <1>8, <1>9 DEF IInv, ImplementationsFit, NewEvents, Typed, AttemptOK
<1>23. MergeHolds'
  BY <1>6, <1>7 DEF MergeHolds
<1> QED
  BY <1>3, <1>12, <1>13, <1>14, <1>15, <1>16, <1>17, <1>18, <1>19, <1>20, <1>21, <1>22, <1>23 DEF IInv

-----------------------------------------------------------------------------
(* What the handlers of a turn's end do.                                   *)

\* An event that is not of a review calls for nothing before it.
LEMMA EventFollows ==
    ASSUME RoundsFollow, NEW v, log' = log \cup {v}, v.kind = "review" /\ v.n > 1 => Called(v.n)
    PROVE  RoundsFollow'
<1>1. v.kind = "review" /\ v.n > 1 =>
        \E w \in log : \/ w.kind \in {"correction", "readiness"} /\ w.n = v.n - 1 /\ v.n <= RoundLimit
                       \/ w.kind = "update"
  BY DEF Called
<1> QED
  BY <1>1 DEF RoundsFollow

LEMMA SameEvents == ASSUME IInv, UNCHANGED log PROVE RoundsFollow' /\ \A r : NewEvents(r)
  BY DEF IInv, RoundsCalled, RoundsFollow, NewEvents

\* What could not be verified changes nothing but the row.
LEMMA RefusalKeeps ==
    ASSUME IInv, NEW r \in Roles, pc[r].at \in {"verify", "join", "admit"}, RequireReview(r),
           UNCHANGED <<steps, feature, sess, att, result, log, tests, branch, checks, intent, down>>
    PROVE  IInv'
  BY StopKeeps, SameEvents, WaitsMade DEF IInv, Typed

\* Results that start over fit.
LEMMA PinnedStaysFit ==
    ASSUME IInv, NEW n, NEW c \in Nat, c <= branch.head, UNCHANGED <<steps, att, sess>>,
           branch'.head = branch.head, tests' = Pinned(n, c)
    PROVE  tests' \in TestsType /\ tests'.commit <= branch.head /\ TestsFit'
<1>1. /\ tests' \in TestsType /\ tests'.commit <= branch.head
      /\ tests' = tests \/ (tests'.status = "pending" /\ tests.commit # c)
  BY PinnedFits DEF IInv, Typed, CommitsBehind
<1>2. CASE tests' = tests
  BY <1>1, <1>2 DEF IInv, TestsFit
<1>3. CASE tests'.status = "pending"
  BY <1>1, <1>3 DEF IInv, TestsFit
<1> QED
  BY <1>1, <1>2, <1>3

\* The lead's handler starts review n of the branch's head, if it is to be.
LEMMA StartReviewKeeps ==
    ASSUME IInv, pc["lead"].at = "verify", steps.review, NEW n \in Nat \ {0},
           StartReview("lead", n, branch.head), NewEvents("lead"), RoundsFollow',
           UNCHANGED <<steps, sess, att, result, checks, intent, down>>,
           branch' = branch \/ branch' = [branch EXCEPT !.approved = 0], branch'.approved = 0,
           n > 1 => Called(n)',
           att["lead"].kind = "readiness" => n > att["lead"].n /\ (steps.tests => tests.commit = branch.head)
    PROVE  IInv'
<1>1. "lead" \in Roles /\ branch.head \in Nat /\ branch.head <= branch.head /\ RunOK(run)
  BY DEF Roles, IInv, Typed, BranchType
<1>2. /\ branch' \in BranchType /\ branch'.head = branch.head /\ branch'.merged = branch.merged
  BY DEF IInv, Typed, BranchType
<1>3. CASE AlreadyReviewed(n)
  <2>1. Done("lead") /\ UNCHANGED <<run, feature, tests>>
    BY <1>3 DEF StartReview
  <2> QED
    BY <1>1, <2>1, StopKeeps
<1>4. CASE ~AlreadyReviewed(n) /\ ~MayReview(n)
  <2>1. RequireReview("lead") /\ UNCHANGED <<feature, tests>>
    BY <1>4 DEF StartReview
  <2>2. RunOK(run') /\ Done("lead")
    BY <1>1, <2>1, WaitsMade
  <2> QED
    BY <1>1, <2>1, <2>2, StopKeeps
<1>5. CASE ~AlreadyReviewed(n) /\ MayReview(n)
  <2>1. /\ tests' = Pinned(n, branch.head) /\ Next1("lead", "reviewer", Attempt("review", n))
        /\ feature' = IF feature = "implementing" THEN "reviewing" ELSE feature
    BY <1>5 DEF StartReview
  <2>2. feature' = "reviewing"
    <3>1. feature \in {"implementing", "reviewing"}
      BY <1>1 DEF IInv, Typed, FeatureFits
    <3> QED
      BY <2>1, <3>1
  <2>3. tests' \in TestsType /\ tests'.commit <= branch.head /\ TestsFit'
    BY <1>1, <1>2, <2>1, PinnedStaysFit
  <2>4. att["lead"].kind = "readiness" => tests' = tests
    BY <2>1 DEF Pinned
  <2> QED
    BY <1>1, <1>2, <2>1, <2>2, <2>3, <2>4, LaunchReviewKeeps
<1> QED
  BY <1>3, <1>4, <1>5

\* A role waits for the other to be done with the first publication.
LEMMA ToJoinKeeps ==
    ASSUME IInv, NEW r \in Roles, pc[r].at = "verify", steps.tests,
           r = "lead" => att["lead"].kind = "implementation", r = "reviewer" => att["reviewer"].kind = "acceptance",
           pc' = [pc EXCEPT ![r].at = "join"], NewEvents(r), RoundsFollow',
           UNCHANGED <<steps, run, feature, sess, att, result, tests, branch, checks, intent, down>>
    PROVE  IInv'
<1>1. "lead" \in Roles /\ "reviewer" \in Roles /\ \A x \in Roles : x = "lead" \/ x = "reviewer"
  BY DEF Roles
<1>2. PcOK(pc') /\ pc'[r].at = "join" /\ \A x \in Roles : x # r => pc'[x] = pc[x]
  <2> DEFINE p == [at |-> "join", next |-> pc[r].next]
  <2>1. pc[r] = [at |-> pc[r].at, next |-> pc[r].next] /\ PcOK(pc)
    BY DEF IInv, Typed, PcOK
  <2>2. p.at \in Places /\ p = [at |-> p.at, next |-> p.next] /\ p.at = "join"
    BY DEF Places
  <2>3. [pc[r] EXCEPT !.at = "join"] = p
    BY <2>1
  <2>4. pc' = Placed(r, p)
    BY <2>3 DEF Placed
  <2> HIDE DEF p
  <2>5. PcOK(Placed(r, p)) /\ Placed(r, p)[r] = p /\ \A x \in Roles : x # r => Placed(r, p)[x] = pc[x]
    BY <2>1, <2>2, PcMoves
  <2> QED
    BY <2>2, <2>4, <2>5
<1>3. steps.review /\ feature \notin {"ready_to_merge", "completed"} /\ branch.merged = 0 /\ ~intent /\ ~down /\ sess[r] = "waiting"
  BY <1>1 DEF IInv, Typed, FeatureFits, MergeHolds, PlacesFit
<1>4. branch.approved = 0
  BY <1>1, <1>3 DEF IInv, ApprovalHolds
<1>5. r = "reviewer" => pc["lead"].at # "admit"
  BY DEF IInv, ImplementationsFit
<1>6. \A m : Approval(m) => Approval(m)'
  BY DEF Approval, NewEvents
<1>7. \A m : Called(m) => Called(m)'
  BY CalledStays DEF NewEvents
<1>8. Typed' /\ CommitsBehind' /\ TestsFit'
  BY <1>2 DEF IInv, Typed, CommitsBehind, TestsFit
<1>9. PlacesFit'
  BY <1>1, <1>2, <1>3 DEF IInv, PlacesFit
<1>10. NoReviewer' /\ MergeHolds' /\ ApprovalHolds'
  BY <1>3, <1>4 DEF NoReviewer, MergeHolds, ApprovalHolds
<1>11. ReviewStarts'
  BY <1>1, <1>2 DEF IInv, ReviewStarts
<1>12. ReadinessHolds'
  BY <1>1, <1>2, <1>6 DEF IInv, ReadinessHolds
<1>13. FeatureFits'
  BY <1>1, <1>2, <1>3 DEF IInv, FeatureFits
<1>14. RoundsCalled'
  BY <1>1, <1>2, <1>7 DEF IInv, RoundsCalled
<1>15. ImplementationsFit'
  BY <1>1, <1>2, <1>3 DEF IInv, ImplementationsFit, NewEvents, Typed, AttemptOK
<1>16. ChecksFit'
  BY DEF IInv, ChecksFit, Of
<1> QED
  BY <1>8, <1>9, <1>10, <1>11, <1>12, <1>13, <1>14, <1>15, <1>16 DEF IInv

LEMMA VerifyImplementationKeeps ==
    ASSUME IInv, pc["lead"].at = "verify", Is("lead", "implementation"), VerifyImplementation,
           UNCHANGED <<steps, sess, att, result, intent, down>>
    PROVE  IInv'
<1> DEFINE c == result["lead"].commit
           v == Verified("implementation", att["lead"].n, c, "published")
           refused == result["lead"].says = "nothing" \/ c # branch.head
<1>1. "lead" \in Roles /\ RunOK(run) /\ branch.head \in Nat /\ att["lead"].kind = "implementation"
  BY DEF Roles, IInv, Typed, BranchType, Is
<1>2. CASE refused
  <2>1. RequireReview("lead") /\ UNCHANGED <<feature, tests, branch, checks, log>>
    BY <1>2 DEF VerifyImplementation, Tip
  <2> QED
    BY <1>1, <2>1, RefusalKeeps
<1>3. CASE ~refused
  <2>1. /\ c = branch.head /\ log' = log \cup {v}
        /\ \/ ~steps.review /\ EnterMergeGate("lead", c) /\ UNCHANGED tests
           \/ /\ steps.review /\ steps.tests /\ pc' = [pc EXCEPT !["lead"].at = "join"]
              /\ UNCHANGED <<run, feature, tests, branch, checks>>
           \/ /\ steps.review /\ StopAtPauseBoundary("lead") /\ UNCHANGED <<feature, tests, branch, checks>>
           \/ /\ steps.review /\ StartReview("lead", 1, c) /\ UNCHANGED <<branch, checks>>
    BY <1>3 DEF VerifyImplementation, Tip
  <2>2. v.kind = "implementation" /\ v.n = att["lead"].n /\ v.commit = c /\ v \in log'
    BY <2>1 DEF Verified
  <2> HIDE DEF v, c
  <2>3. NewEvents("lead") /\ RoundsFollow'
    BY <1>1, <2>1, <2>2, EventFollows DEF NewEvents, IInv, RoundsCalled
  <2>4. CASE ~steps.review /\ EnterMergeGate("lead", c) /\ UNCHANGED tests
    BY <2>1, <2>2, <2>3, <2>4, GateKeeps
  <2>5. CASE steps.review /\ steps.tests /\ pc' = [pc EXCEPT !["lead"].at = "join"]
             /\ UNCHANGED <<run, feature, tests, branch, checks>>
    BY <1>1, <2>3, <2>5, ToJoinKeeps
  <2>6. CASE steps.review /\ StopAtPauseBoundary("lead") /\ UNCHANGED <<feature, tests, branch, checks>>
    <3>1. RunOK(run') /\ Done("lead")
      BY <1>1, <2>6, WaitsMade
    <3> QED
      BY <1>1, <2>3, <2>6, <3>1, StopKeeps
  <2>7. CASE steps.review /\ StartReview("lead", 1, c) /\ UNCHANGED <<branch, checks>>
    <3>1. branch.approved = 0
      BY <1>1, <2>7 DEF IInv, ApprovalHolds
    <3> QED
      BY <1>1, <2>1, <2>3, <2>7, <3>1, StartReviewKeeps
  <2> QED
    BY <2>1, <2>4, <2>5, <2>6, <2>7
<1> QED
  BY <1>2, <1>3

LEMMA VerifyReviewKeeps ==
    ASSUME IInv, pc["reviewer"].at = "verify", Is("reviewer", "review"), VerifyReview,
           UNCHANGED <<steps, feature, sess, att, result, tests, branch, checks, intent, down>>
    PROVE  IInv'
<1> DEFINE res == result["reviewer"]
           n == att["reviewer"].n
           v == Verified("review", n, res.commit, res.says)
           kind == IF res.says = "approved" THEN "readiness" ELSE "correction"
<1>1. /\ "reviewer" \in Roles /\ RunOK(run) /\ att["reviewer"].kind = "review" /\ n \in Nat \ {0}
      /\ sess["reviewer"] = "waiting"
  BY DEF Roles, IInv, Typed, AttemptOK, Is, PlacesFit
<1>2. CASE ReviewRefused(res)
  <2>1. RequireReview("reviewer") /\ UNCHANGED log
    BY <1>2 DEF VerifyReview
  <2> QED
    BY <1>1, <2>1, RefusalKeeps
<1>3. CASE ~ReviewRefused(res)
  <2>1. /\ log' = log \cup {v}
        /\ \/ StopAtPauseBoundary("reviewer")
           \/ Done("reviewer") /\ UNCHANGED run
           \/ Next1("reviewer", "lead", Attempt(kind, n))
           \/ RequireReview("reviewer")
    BY <1>3 DEF VerifyReview, StartAnswer
  <2>2. v.kind = "review" /\ v.n = n /\ v \in log'
    BY <2>1 DEF Verified
  <2>3. kind \in {"readiness", "correction"} /\ (kind = "readiness" => res.says = "approved")
    OBVIOUS
  <2>4. kind = "readiness" => Approval(n)'
    <3>1. ASSUME steps.tests, res.says = "approved"
          PROVE  tests = [commit |-> res.commit, status |-> "passed", ran |-> res.commit]
      <4>1. /\ tests.commit = res.commit /\ tests.status \notin {"pending", "failed"} /\ branch.head = res.commit
        BY <1>3, <3>1 DEF ReviewRefused, Tip
      <4>2. tests \in TestsType /\ tests.status # "none" /\ branch.head \in Nat
        BY <1>1, <3>1 DEF IInv, TestsFit, Typed, BranchType
      <4>3. tests.status = "passed"
        BY <4>1, <4>2 DEF TestsType, Statuses
      <4>4. tests.ran = tests.commit
        BY <3>1, <4>1, <4>2, <4>3 DEF IInv, TestsFit
      <4> QED
        BY <4>1, <4>2, <4>3, <4>4 DEF TestsType
    <3>2. res.says = "approved" => Verified("review", n, res.commit, "approved") \in log'
      BY <2>1
    <3> QED
      BY <1>1, <2>3, <3>1, <3>2 DEF Approval
  <2> HIDE DEF v, kind
  <2>5. NewEvents("reviewer") /\ RoundsFollow'
    <3>1. n > 1 => Called(n)
      BY <1>1 DEF IInv, RoundsCalled
    <3> QED
      BY <2>1, <2>2, <3>1, EventFollows DEF NewEvents, IInv, RoundsCalled
  <2>6. CASE StopAtPauseBoundary("reviewer") \/ (Done("reviewer") /\ UNCHANGED run) \/ RequireReview("reviewer")
    <3>1. RunOK(run') /\ Done("reviewer")
      BY <1>1, <2>6, WaitsMade
    <3> QED
      BY <1>1, <2>5, <3>1, StopKeeps
  <2>7. CASE Next1("reviewer", "lead", Attempt(kind, n))
    <3>1. PICK k \in {"readiness", "correction"}, m \in Nat \ {0} : k = kind /\ m = n
      BY <1>1, <2>3
    <3>2. k = "readiness" => Approval(m)'
      BY <2>4, <3>1 DEF Approval
    <3> QED
      BY <1>1, <2>5, <2>7, <3>1, <3>2, LaunchAnswerKeeps
  <2> QED
    BY <2>1, <2>6, <2>7
<1> QED
  BY <1>2, <1>3

LEMMA VerifyCorrectionKeeps ==
    ASSUME IInv, pc["lead"].at = "verify", Is("lead", "correction"), VerifyCorrection,
           UNCHANGED <<steps, sess, att, result, branch, checks, intent, down>>
    PROVE  IInv'
<1> DEFINE n == att["lead"].n
           c == result["lead"].commit
           v == Verified("correction", n, c, "published")
           follows == /\ Is("reviewer", "review") /\ att["reviewer"].n = n
                      /\ result["reviewer"].says = "changes" /\ c = branch.head
<1>1. /\ "lead" \in Roles /\ RunOK(run) /\ att["lead"].kind = "correction" /\ n \in Nat \ {0}
      /\ branch.head \in Nat /\ branch.head <= branch.head
  BY DEF Roles, IInv, Typed, AttemptOK, Is, BranchType
<1>2. steps.review /\ branch.approved = 0
  BY <1>1 DEF IInv, NoReviewer, ApprovalHolds
<1>3. CASE ~follows
  <2>1. RequireReview("lead") /\ UNCHANGED <<log, feature, tests>>
    BY <1>3 DEF VerifyCorrection, Tip
  <2> QED
    BY <1>1, <2>1, RefusalKeeps
<1>4. CASE follows
  <2>1. /\ c = branch.head /\ log' = log \cup {v}
        /\ \/ waitRun("round_cap", "rounds") /\ Done("lead") /\ UNCHANGED <<feature, tests>>
           \/ StopAtPauseBoundary("lead") /\ tests' = Pinned(n + 1, c) /\ UNCHANGED feature
           \/ ~RoundLimitReached(n) /\ StartReview("lead", n + 1, c)
    BY <1>4 DEF VerifyCorrection, Tip
  <2>2. v.kind = "correction" /\ v.n = n /\ v \in log'
    BY <2>1 DEF Verified
  <2> HIDE DEF v, c
  <2>3. NewEvents("lead") /\ RoundsFollow'
    BY <2>1, <2>2, EventFollows DEF NewEvents, IInv, RoundsCalled
  <2>4. CASE waitRun("round_cap", "rounds") /\ Done("lead") /\ UNCHANGED <<feature, tests>>
    BY <1>1, <2>3, <2>4, WaitsMade, StopKeeps
  <2>5. CASE StopAtPauseBoundary("lead") /\ tests' = Pinned(n + 1, c) /\ UNCHANGED feature
    <3>1. RunOK(run') /\ Done("lead")
      BY <1>1, <2>5, WaitsMade
    <3>2. tests' \in TestsType /\ tests'.commit <= branch.head /\ TestsFit'
      BY <1>1, <2>1, <2>5, PinnedStaysFit
    <3> QED
      BY <1>1, <1>2, <2>3, <2>5, <3>1, <3>2, StopKeeps
  <2>6. CASE ~RoundLimitReached(n) /\ StartReview("lead", n + 1, c)
    <3>1. PICK m \in Nat \ {0} : m = n + 1 /\ m <= RoundLimit
      BY <1>1, <2>6, RoundAssumption DEF RoundLimitReached
    <3>2. Called(m)'
      BY <1>1, <2>2, <3>1 DEF Called
    <3> QED
      BY <1>1, <1>2, <2>1, <2>3, <2>6, <3>1, <3>2, StartReviewKeeps
  <2> QED
    BY <2>1, <2>4, <2>5, <2>6
<1> QED
  BY <1>3, <1>4

LEMMA VerifyReadinessKeeps ==
    ASSUME IInv, pc["lead"].at = "verify", Is("lead", "readiness"), VerifyReadiness,
           UNCHANGED <<steps, sess, att, result, intent, down>>
    PROVE  IInv'
<1> DEFINE n == att["lead"].n
           c == result["reviewer"].commit
           says == result["lead"].says
           v == Verified("readiness", n, c, says)
<1>1. /\ "lead" \in Roles /\ RunOK(run) /\ att["lead"].kind = "readiness" /\ n \in Nat \ {0}
      /\ branch.head \in Nat
  BY DEF Roles, IInv, Typed, AttemptOK, Is, BranchType
<1>2. steps.review /\ branch.approved = 0
  BY <1>1 DEF IInv, NoReviewer, ApprovalHolds
<1>3. CASE ~Acknowledges \/ c # branch.head
  <2>1. RequireReview("lead") /\ UNCHANGED <<log, feature, tests, branch, checks>>
    BY <1>3 DEF VerifyReadiness, Tip
  <2> QED
    BY <1>1, <2>1, RefusalKeeps
<1>4. CASE Acknowledges /\ c = branch.head
  <2>1. /\ log' = log \cup {v}
        /\ \/ says = "ready" /\ EnterMergeGate("lead", c) /\ UNCHANGED tests
           \/ waitRun("round_cap", "rounds") /\ Done("lead") /\ UNCHANGED <<feature, tests, branch, checks>>
           \/ StopAtPauseBoundary("lead") /\ UNCHANGED <<feature, tests, branch, checks>>
           \/ ~RoundLimitReached(n) /\ StartReview("lead", n + 1, c) /\ UNCHANGED <<branch, checks>>
    BY <1>4 DEF VerifyReadiness, Tip
  <2>2. v = Verified("readiness", n, c, says) /\ v.kind = "readiness" /\ v.n = n /\ v \in log'
    BY <2>1 DEF Verified
  <2>3. att["reviewer"].kind = "review" /\ att["reviewer"].n = n
    BY <1>4 DEF Acknowledges, Is
  <2> HIDE DEF v
  <2>4. NewEvents("lead") /\ RoundsFollow'
    BY <2>1, <2>2, EventFollows DEF NewEvents, IInv, RoundsCalled
  <2>5. CASE says = "ready" /\ EnterMergeGate("lead", c) /\ UNCHANGED tests
    <3>1. Verified("readiness", att["lead"].n, branch.head, "ready") \in log'
      BY <1>4, <2>2, <2>5
    <3> QED
      BY <1>1, <1>2, <1>4, <2>3, <2>4, <2>5, <3>1, GateKeeps
  <2>6. CASE waitRun("round_cap", "rounds") /\ Done("lead") /\ UNCHANGED <<feature, tests, branch, checks>>
    BY <1>1, <2>4, <2>6, WaitsMade, StopKeeps
  <2>7. CASE StopAtPauseBoundary("lead") /\ UNCHANGED <<feature, tests, branch, checks>>
    <3>1. RunOK(run') /\ Done("lead")
      BY <1>1, <2>7, WaitsMade
    <3> QED
      BY <1>1, <2>4, <2>7, <3>1, StopKeeps
  <2>8. CASE ~RoundLimitReached(n) /\ StartReview("lead", n + 1, c) /\ UNCHANGED <<branch, checks>>
    <3>1. PICK m \in Nat \ {0} : m = n + 1 /\ m <= RoundLimit
      BY <1>1, <2>8, RoundAssumption DEF RoundLimitReached
    <3>2. Called(m)' /\ m > att["lead"].n
      BY <1>1, <2>2, <3>1 DEF Called
    <3>3. steps.tests => tests.commit = branch.head
      BY <1>1, <1>4, <2>3 DEF IInv, ReadinessHolds, Approval
    <3> QED
      BY <1>1, <1>2, <1>4, <2>4, <2>8, <3>1, <3>2, <3>3, StartReviewKeeps
  <2> QED
    BY <2>1, <2>5, <2>6, <2>7, <2>8
<1> QED
  BY <1>3, <1>4

LEMMA VerifyBaseUpdateKeeps ==
    ASSUME IInv, pc["lead"].at = "verify", Is("lead", "update"), VerifyBaseUpdate,
           UNCHANGED <<steps, sess, att, result, intent, down>>
    PROVE  IInv'
<1> DEFINE c == result["lead"].commit
           v == Verified("update", att["lead"].n, c, "published")
           refused == result["lead"].says = "nothing" \/ c # branch.head
<1>1. /\ "lead" \in Roles /\ RunOK(run) /\ att["lead"].kind = "update"
      /\ branch.head \in Nat /\ branch.head <= branch.head /\ branch \in BranchType
      /\ att["reviewer"].n \in Nat \ {0}
  BY DEF Roles, IInv, Typed, BranchType, Is, AttemptOK, ReviewerKinds
<1>2. CASE refused
  <2>1. RequireReview("lead") /\ UNCHANGED <<log, feature, tests, branch, checks>>
    BY <1>2 DEF VerifyBaseUpdate, Tip
  <2> QED
    BY <1>1, <2>1, RefusalKeeps
<1>3. CASE ~refused
  <2>1. /\ c = branch.head /\ log' = log \cup {v}
        /\ \/ ~steps.review /\ EnterMergeGate("lead", c) /\ UNCHANGED tests
           \/ /\ steps.review /\ StopAtPauseBoundary("lead") /\ branch' = Released(c)
              /\ tests' = Pinned(2, c) /\ UNCHANGED <<feature, checks>>
           \/ /\ steps.review /\ branch' = Released(c) /\ UNCHANGED checks
              /\ StartReview("lead", att["reviewer"].n + 1, c)
    BY <1>3 DEF VerifyBaseUpdate, Tip
  <2>2. v.kind = "update" /\ v.commit = c /\ v \in log'
    BY <2>1 DEF Verified
  <2>3. steps.review => Released(c) = [branch EXCEPT !.approved = 0] /\ Released(c).approved = 0
    <3>1. steps.review /\ branch.approved # 0 => c # branch.approved
      BY <1>1 DEF IInv, ApprovalHolds
    <3>2. steps.review => (IF branch.approved = c THEN branch.approved ELSE 0) = 0
      BY <3>1
    <3>3. Released(c) = [branch EXCEPT !.approved = IF branch.approved = c THEN branch.approved ELSE 0]
      BY DEF Released
    <3> QED
      BY <1>1, <3>2, <3>3 DEF BranchType
  <2> HIDE DEF v, c
  <2>4. NewEvents("lead") /\ RoundsFollow'
    BY <2>1, <2>2, EventFollows DEF NewEvents, IInv, RoundsCalled
  <2>5. CASE ~steps.review /\ EnterMergeGate("lead", c) /\ UNCHANGED tests
    BY <2>1, <2>2, <2>4, <2>5, GateKeeps
  <2>6. CASE steps.review /\ StopAtPauseBoundary("lead") /\ branch' = Released(c)
             /\ tests' = Pinned(2, c) /\ UNCHANGED <<feature, checks>>
    <3>1. RunOK(run') /\ Done("lead")
      BY <1>1, <2>6, WaitsMade
    <3>2. branch' = [branch EXCEPT !.approved = 0] /\ branch'.approved = 0 /\ branch'.head = branch.head
      BY <1>1, <2>3, <2>6 DEF BranchType
    <3>3. tests' \in TestsType /\ tests'.commit <= branch.head /\ TestsFit'
      BY <1>1, <2>1, <2>6, <3>2, PinnedStaysFit
    <3> QED
      BY <1>1, <2>4, <2>6, <3>1, <3>2, <3>3, StopKeeps
  <2>7. CASE steps.review /\ branch' = Released(c) /\ UNCHANGED checks
             /\ StartReview("lead", att["reviewer"].n + 1, c)
    <3>1. PICK m \in Nat \ {0} : m = att["reviewer"].n + 1
      BY <1>1
    <3>2. Called(m)'
      BY <2>2 DEF Called
    <3>3. branch' = [branch EXCEPT !.approved = 0] /\ branch'.approved = 0
      BY <2>3, <2>7
    <3> QED
      BY <1>1, <2>1, <2>4, <2>7, <3>1, <3>2, <3>3, StartReviewKeeps
  <2> QED
    BY <2>1, <2>5, <2>6, <2>7
<1> QED
  BY <1>2, <1>3

\* The end of either first turn, joined.
LEMMA JoinKeeps ==
    ASSUME IInv, NEW r \in Roles, Join(r)
    PROVE  IInv'
<1> DEFINE c == result["lead"].commit
           ready == /\ \A x \in Roles : sess[x] = "waiting"
                    /\ \E v \in log : v.kind = "implementation" /\ v.n = att["lead"].n
           first == Is("lead", "implementation") /\ Is("reviewer", "acceptance")
<1>1. /\ pc[r].at = "join" /\ UNCHANGED <<steps, sess, att, result, log, branch, checks, intent, down>>
      /\ TryStartAcceptanceReview(r)
  BY DEF Join
<1>2. steps.tests /\ steps.review
  BY <1>1 DEF IInv, PlacesFit, Typed
<1>3. RunOK(run) /\ tests \in TestsType /\ c \in Nat /\ c <= branch.head /\ branch \in BranchType
  BY DEF IInv, Typed, CommitsBehind, ResultType, Roles
<1>4. /\ ~ready => Done(r) /\ UNCHANGED <<run, feature, tests>>
      /\ ready /\ ~first => RequireReview(r) /\ UNCHANGED <<feature, tests>>
      /\ ready /\ first => /\ tests' = [tests EXCEPT !.commit = c]
                           /\ \/ StopAtPauseBoundary(r) /\ UNCHANGED feature
                              \/ feature' = "reviewing" /\ Next1(r, "reviewer", Attempt("review", 1))
  BY <1>1 DEF TryStartAcceptanceReview
<1> HIDE DEF c
<1>5. NewEvents(r) /\ RoundsFollow'
  BY <1>1, SameEvents
<1>6. CASE ~ready
  <2>1. Done(r) /\ UNCHANGED <<run, feature, tests>> /\ RunOK(run')
    BY <1>3, <1>4, <1>6
  <2> HIDE DEF ready
  <2> QED
    BY <1>1, <1>5, <2>1, StopKeeps
<1>7. CASE ready /\ ~first
  <2>1. RequireReview(r) /\ UNCHANGED <<feature, tests>>
    BY <1>4, <1>7
  <2> HIDE DEF ready, first
  <2> QED
    BY <1>1, <2>1, RefusalKeeps
<1>8. CASE ready /\ first
  <2>1. att["lead"].kind = "implementation" /\ att["reviewer"].kind = "acceptance"
    BY <1>8 DEF Is
  <2>2. tests' \in TestsType /\ tests'.commit = c /\ tests'.commit <= branch.head /\ tests'.status = tests.status
    BY <1>3, <1>4, <1>8 DEF TestsType
  <2>3. TestsFit'
    <3>1. "reviewer" \in Roles /\ sess["reviewer"] = "waiting"
      BY <1>8 DEF Roles
    <3> HIDE DEF ready, first
    <3> QED
      BY <1>1, <1>2, <2>1, <2>2, <3>1 DEF IInv, TestsFit
  <2>4. branch.approved = 0
    BY <1>2, <2>1 DEF IInv, ApprovalHolds
  <2>5. CASE StopAtPauseBoundary(r) /\ UNCHANGED feature
    <3>1. RunOK(run') /\ Done(r)
      BY <1>3, <2>5, WaitsMade
    <3>2. branch'.approved = 0 /\ att["lead"].kind # "readiness" /\ att["reviewer"].kind # "review"
      BY <1>1, <2>1, <2>4
    <3> HIDE DEF ready, first
    <3> QED
      BY <1>1, <1>5, <2>2, <2>3, <2>5, <3>1, <3>2, StopKeeps
  <2>6. CASE feature' = "reviewing" /\ Next1(r, "reviewer", Attempt("review", 1))
    <3>1. r = "reviewer" => pc["lead"].at \in {"idle", "join"}
      <4>1. ASSUME r = "reviewer" PROVE pc["lead"].at \notin {"admit", "turn", "verify"}
        <5>1. PICK v \in log : v.kind = "implementation" /\ v.n = att["lead"].n
          BY <1>8
        <5>2. pc["lead"].at # "turn"
          BY <1>8 DEF IInv, PlacesFit, Roles
        <5>3. att["lead"].n \in Nat
          BY <2>1 DEF IInv, Typed, AttemptOK, Roles
        <5> HIDE DEF ready, first
        <5> QED
          BY <1>1, <2>1, <4>1, <5>1, <5>2, <5>3 DEF IInv, ImplementationsFit
      <4>2. pc["lead"].at \in Places
        BY DEF IInv, Typed, PcOK, Roles
      <4> QED
        BY <4>1, <4>2 DEF Places
    <3>2. branch'.approved = 0 /\ branch' = branch
      BY <1>1, <2>4
    <3> HIDE DEF ready, first
    <3> QED
      BY <1>1, <1>2, <1>3, <1>5, <2>1, <2>2, <2>3, <2>6, <3>1, <3>2, LaunchReviewKeeps
  <2> QED
    BY <1>4, <1>8, <2>5, <2>6
<1> QED
  BY <1>6, <1>7, <1>8

LEMMA VerifyKeeps ==
    ASSUME IInv, NEW r \in Roles, Verify(r)
    PROVE  IInv'
<1>1. pc[r].at = "verify" /\ UNCHANGED <<steps, sess, att, result, intent, down>>
  BY DEF Verify
<1>2. r = "lead" \/ r = "reviewer"
  BY DEF Roles
<1>3. /\ r = "lead" => att[r].kind \in LeadKinds
      /\ r = "reviewer" => att[r].kind \in {"review", "acceptance"}
  BY <1>1 DEF IInv, Typed, ReviewerKinds, PlacesFit
<1>4. CASE att[r].kind = "implementation"
  <2>1. r = "lead" /\ Is("lead", "implementation") /\ VerifyImplementation
    BY <1>2, <1>3, <1>4 DEF Verify, Is
  <2> QED
    BY <1>1, <2>1, VerifyImplementationKeeps
<1>5. CASE att[r].kind = "acceptance"
  <2>1. r = "reviewer"
    BY <1>2, <1>3, <1>5 DEF LeadKinds
  <2>2. ~Is(r, "implementation") /\ Is(r, "acceptance") /\ ~Is(r, "review") /\ ~Is(r, "correction") /\ ~Is(r, "readiness")
    BY <1>5 DEF Is
  <2>3. pc' = [pc EXCEPT ![r].at = "join"] /\ UNCHANGED <<run, feature, tests, branch, checks, log>>
    BY <2>2 DEF Verify
  <2>4. steps.tests
    BY <1>5, <2>1 DEF IInv, PlacesFit
  <2> QED
    BY <1>1, <1>5, <2>1, <2>3, <2>4, SameEvents, ToJoinKeeps
<1>6. CASE att[r].kind = "review"
  <2>1. r = "reviewer"
    BY <1>2, <1>3, <1>6 DEF LeadKinds
  <2>2. ~Is(r, "implementation") /\ ~Is(r, "acceptance") /\ Is(r, "review") /\ ~Is(r, "correction") /\ ~Is(r, "readiness")
    BY <1>6 DEF Is
  <2>3. VerifyReview /\ UNCHANGED <<feature, tests, branch, checks>>
    BY <2>2 DEF Verify
  <2> QED
    BY <1>1, <2>1, <2>2, <2>3, VerifyReviewKeeps
<1>7. CASE att[r].kind = "correction"
  <2>1. r = "lead"
    BY <1>2, <1>3, <1>7
  <2>2. ~Is(r, "implementation") /\ ~Is(r, "acceptance") /\ ~Is(r, "review") /\ Is(r, "correction") /\ ~Is(r, "readiness")
    BY <1>7 DEF Is
  <2>3. VerifyCorrection /\ UNCHANGED <<branch, checks>>
    BY <2>2 DEF Verify
  <2> QED
    BY <1>1, <2>1, <2>2, <2>3, VerifyCorrectionKeeps
<1>8. CASE att[r].kind = "readiness"
  <2>1. r = "lead"
    BY <1>2, <1>3, <1>8
  <2>2. ~Is(r, "implementation") /\ ~Is(r, "acceptance") /\ ~Is(r, "review") /\ ~Is(r, "correction") /\ Is(r, "readiness")
    BY <1>8 DEF Is
  <2>3. VerifyReadiness
    BY <2>2 DEF Verify
  <2> QED
    BY <1>1, <2>1, <2>2, <2>3, VerifyReadinessKeeps
<1>9. CASE att[r].kind = "update"
  <2>1. r = "lead"
    BY <1>2, <1>3, <1>9
  <2>2. /\ ~Is(r, "implementation") /\ ~Is(r, "acceptance") /\ ~Is(r, "review") /\ ~Is(r, "correction")
        /\ ~Is(r, "readiness") /\ Is(r, "update")
    BY <1>9 DEF Is
  <2>3. VerifyBaseUpdate
    BY <2>2 DEF Verify
  <2> QED
    BY <1>1, <2>1, <2>2, <2>3, VerifyBaseUpdateKeeps
<1> QED
  BY <1>2, <1>3, <1>4, <1>5, <1>6, <1>7, <1>8, <1>9 DEF LeadKinds

-----------------------------------------------------------------------------
(* Turns begin and end.                                                    *)

\* What an agent returns: a commit at most one beyond the head, and what it says.
LEMMA ResultsAre ==
    ASSUME NEW r \in Roles, att[r].kind \in Kinds, branch \in BranchType, NEW res \in Results(r)
    PROVE  /\ res \in ResultType /\ res.commit <= branch.head + 1
           /\ att[r].kind = "update" => res.commit = 0 \/ res.commit = branch.head + 1
           /\ att[r].kind = "review" => res.commit = branch.head
<1> DEFINE K == att[r].kind
           publication == {[commit |-> branch.head + 1, says |-> "published"], [commit |-> 0, says |-> "nothing"]}
           correction == {[commit |-> branch.head + 1, says |-> "published"], [commit |-> branch.head, says |-> "published"]}
           readiness == {[commit |-> 0, says |-> s] : s \in {"ready", "concern"}}
           review == {[commit |-> branch.head, says |-> s] : s \in {"approved", "changes"}}
           written == {[commit |-> 0, says |-> "written"]}
<1>1. Results(r) = CASE K \in {"implementation", "update"} -> publication
                     [] K = "correction" -> correction
                     [] K = "readiness" -> readiness
                     [] K = "review" -> review
                     [] OTHER -> written
  BY DEF Results, Tip
<1>2. K \in Kinds /\ branch.head \in Nat
  BY DEF BranchType
<1>3. \A s \in Facts : \A c \in Nat : [commit |-> c, says |-> s] \in ResultType
  BY DEF ResultType
<1> HIDE DEF K
<1>4. CASE K \in {"implementation", "update"}
  <2>1. Results(r) = publication
    <3> HIDE DEF publication, correction, readiness, review, written
    <3>1. K # "correction" /\ K # "readiness" /\ K # "review"
      BY <1>4
    <3> QED
      BY <1>1, <1>4, <3>1
  <2> QED
    BY <1>2, <1>4, <2>1 DEF Facts, ResultType, K
<1>5. CASE K = "correction"
  <2>1. Results(r) = correction
    <3> HIDE DEF publication, correction, readiness, review, written
    <3>1. K \notin {"implementation", "update"} /\ K # "readiness" /\ K # "review"
      BY <1>5
    <3> QED
      BY <1>1, <1>5, <3>1
  <2> QED
    BY <1>2, <1>5, <2>1 DEF Facts, ResultType, K
<1>6. CASE K = "readiness"
  <2>1. Results(r) = readiness
    <3> HIDE DEF publication, correction, readiness, review, written
    <3>1. K \notin {"implementation", "update"} /\ K # "correction" /\ K # "review"
      BY <1>6
    <3> QED
      BY <1>1, <1>6, <3>1
  <2> QED
    BY <1>2, <1>6, <2>1 DEF Facts, ResultType, K
<1>7. CASE K = "review"
  <2>1. Results(r) = review
    <3> HIDE DEF publication, correction, readiness, review, written
    <3>1. K \notin {"implementation", "update"} /\ K # "readiness" /\ K # "correction"
      BY <1>7
    <3> QED
      BY <1>1, <1>7, <3>1
  <2> QED
    BY <1>2, <1>7, <2>1 DEF Facts, ResultType, K
<1>8. CASE K \in {"planning", "acceptance"}
  <2>1. Results(r) = written
    <3> HIDE DEF publication, correction, readiness, review, written
    <3>1. K \notin {"implementation", "update"} /\ K # "readiness" /\ K # "correction" /\ K # "review"
      BY <1>8
    <3> QED
      BY <1>1, <3>1
  <2> QED
    BY <1>2, <1>8, <2>1 DEF Facts, ResultType, K
<1> QED
  BY <1>2, <1>4, <1>5, <1>6, <1>7, <1>8 DEF Kinds

LEMMA EndTurnKeeps ==
    ASSUME IInv, NEW r \in Roles, NEW res \in Results(r), NEW recorded \in Recorded, EndTurn(r, res, recorded)
    PROVE  IInv'
<1>1. "lead" \in Roles /\ "reviewer" \in Roles /\ \A x \in Roles : x = "lead" \/ x = "reviewer"
  BY DEF Roles
<1>2. /\ pc[r].at = "turn" /\ UNCHANGED <<steps, run, feature, att, log, checks, intent, down>>
      /\ result' = [result EXCEPT ![r] = res] /\ sess' = [sess EXCEPT ![r] = "waiting"]
      /\ branch' = [branch EXCEPT !.head = IF res.commit > @ THEN res.commit ELSE @]
      /\ tests' = IF Is(r, "acceptance") THEN [commit |-> 0, status |-> "pending", ran |-> 0]
                  ELSE IF Is(r, "review") /\ steps.tests /\ recorded # "pending"
                  THEN [tests EXCEPT !.status = recorded, !.ran = res.commit] ELSE tests
      /\ pc' = [pc EXCEPT ![r].at = "verify"]
  BY DEF EndTurn
<1>3. /\ sess[r] = "running" /\ feature \notin {"ready_to_merge", "completed"} /\ branch.merged = 0
      /\ ~intent /\ ~down
  BY <1>1, <1>2 DEF IInv, PlacesFit, FeatureFits, MergeHolds
<1>4. /\ res \in ResultType /\ res.commit <= branch.head + 1
      /\ att[r].kind = "update" => res.commit = 0 \/ res.commit = branch.head + 1
      /\ att[r].kind = "review" => res.commit = branch.head
  <2>1. att[r].kind \in Kinds /\ branch \in BranchType
    BY DEF IInv, Typed, AttemptOK
  <2> QED
    BY <2>1, ResultsAre
<1>5. PcOK(pc') /\ pc'[r].at = "verify" /\ \A x \in Roles : x # r => pc'[x] = pc[x]
  <2> DEFINE p == [at |-> "verify", next |-> pc[r].next]
  <2>1. pc[r] = [at |-> pc[r].at, next |-> pc[r].next] /\ PcOK(pc)
    BY DEF IInv, Typed, PcOK
  <2>2. p.at \in Places /\ p = [at |-> p.at, next |-> p.next] /\ p.at = "verify"
    BY DEF Places
  <2>3. [pc[r] EXCEPT !.at = "verify"] = p
    BY <2>1
  <2>4. pc' = Placed(r, p)
    BY <1>2, <2>3 DEF Placed
  <2> HIDE DEF p
  <2>5. PcOK(Placed(r, p)) /\ Placed(r, p)[r] = p /\ \A x \in Roles : x # r => Placed(r, p)[x] = pc[x]
    BY <2>1, <2>2, PcMoves
  <2> QED
    BY <2>2, <2>4, <2>5
<1>6. /\ sess' \in [Roles -> {"running", "waiting"}] /\ sess'[r] = "waiting" /\ \A x \in Roles : x # r => sess'[x] = sess[x]
      /\ result' \in [Roles -> ResultType] /\ result'[r] = res /\ \A x \in Roles : x # r => result'[x] = result[x]
  BY <1>2, <1>4 DEF IInv, Typed
<1>7. /\ branch' \in BranchType /\ branch'.approved = branch.approved /\ branch'.merged = branch.merged
      /\ branch'.head >= branch.head /\ res.commit <= branch'.head /\ branch.head \in Nat
  BY <1>2, <1>4 DEF IInv, Typed, BranchType, ResultType
<1>8. /\ att[r].kind \notin {"acceptance", "review"} => tests' = tests
      /\ att[r].kind = "acceptance" => tests' = [commit |-> 0, status |-> "pending", ran |-> 0]
      /\ att[r].kind = "review" => tests' = tests \/ tests' = [tests EXCEPT !.status = recorded, !.ran = res.commit]
  BY <1>2 DEF Is
<1>9. r = "lead" => tests' = tests
  BY <1>8 DEF IInv, Typed, LeadKinds
<1>10. tests' \in TestsType /\ tests'.commit <= branch'.head
  <2>1. /\ tests \in TestsType /\ tests.commit \in Nat /\ tests.commit <= branch'.head
        /\ branch'.head \in Nat /\ res.commit \in Nat /\ recorded \in Statuses
    BY <1>4, <1>7 DEF IInv, Typed, CommitsBehind, TestsType, BranchType, ResultType, Recorded, Statuses
  <2>2. CASE tests' = tests
    BY <2>1, <2>2
  <2>3. CASE tests' = [commit |-> 0, status |-> "pending", ran |-> 0]
    BY <2>1, <2>3 DEF TestsType, Statuses
  <2>4. CASE tests' = [tests EXCEPT !.status = recorded, !.ran = res.commit]
    BY <2>1, <2>4 DEF TestsType
  <2> QED
    BY <1>2, <2>2, <2>3, <2>4
<1>11. r = "lead" => \A m : Approval(m) => Approval(m)'
  BY <1>1, <1>2, <1>6, <1>9 DEF Approval
<1>12. r = "reviewer" => \A m : ~Approval(m)
  BY <1>3 DEF Approval
<1>13. Typed'
  BY <1>2, <1>5, <1>6, <1>7, <1>10 DEF IInv, Typed
<1>14. PlacesFit'
  BY <1>1, <1>2, <1>3, <1>5, <1>6 DEF IInv, PlacesFit
<1>15. CommitsBehind'
  BY <1>1, <1>6, <1>7, <1>10 DEF IInv, CommitsBehind, Typed, ResultType, BranchType
<1>16. TestsFit'
  <2>1. /\ tests.commit \in Nat /\ branch'.head \in Nat /\ tests.commit <= branch.head
        /\ tests \in TestsType
    BY <1>7 DEF IInv, Typed, CommitsBehind, TestsType, BranchType
  <2>2. /\ att["reviewer"].kind # "acceptance" => sess'["reviewer"] = "waiting" \/ sess'["reviewer"] = sess["reviewer"]
        /\ r = "lead" => sess'["reviewer"] = sess["reviewer"]
    BY <1>1, <1>6
  <2>3. r = "reviewer" => att["reviewer"].kind \in {"acceptance", "review"}
    BY <1>3 DEF IInv, Typed, ReviewerKinds, PlacesFit
  <2>4. CASE tests' = tests /\ (r = "reviewer" => att["reviewer"].kind = "review")
    <3>1. steps.tests /\ tests.status \in {"passed", "failed"} => tests.ran = tests.commit \/ tests.commit < branch'.head
      BY <1>7, <2>1 DEF IInv, TestsFit
    <3>2. steps.tests /\ att["reviewer"].kind = "acceptance" => tests.status \in {"none", "pending"}
      BY DEF IInv, TestsFit
    <3>3. steps.tests /\ (att["reviewer"].kind # "acceptance" \/ sess'["reviewer"] = "waiting") => tests.status # "none"
      BY <1>1, <2>2, <2>4 DEF IInv, TestsFit
    <3> QED
      BY <1>2, <2>4, <3>1, <3>2, <3>3 DEF TestsFit
  <2>5. CASE tests' = [commit |-> 0, status |-> "pending", ran |-> 0]
    <3>1. tests'.status = "pending"
      BY <2>5
    <3> QED
      BY <3>1 DEF TestsFit
  <2>6. CASE r = "reviewer" /\ att["reviewer"].kind = "review" /\ tests' = [tests EXCEPT !.status = recorded, !.ran = res.commit]
    <3>1. tests'.status = recorded /\ tests'.ran = res.commit /\ tests'.commit = tests.commit
      BY <2>1, <2>6 DEF TestsType
    <3>2. tests'.ran = tests'.commit \/ tests'.commit < branch'.head
      BY <1>4, <1>7, <2>1, <2>6, <3>1
    <3>3. tests'.status # "none" /\ att'["reviewer"].kind = "review"
      BY <1>2, <2>6, <3>1 DEF Recorded
    <3> QED
      BY <3>2, <3>3 DEF TestsFit
  <2> QED
    BY <1>1, <1>8, <1>9, <2>3, <2>4, <2>5, <2>6
<1>17. NoReviewer'
  BY <1>1, <1>2, <1>3, <1>5, <1>6 DEF IInv, NoReviewer
<1>18. ReviewStarts'
  BY <1>1, <1>2, <1>5, <1>7 DEF IInv, ReviewStarts
<1>19. ReadinessHolds'
  BY <1>1, <1>2, <1>5, <1>11, <1>12 DEF IInv, ReadinessHolds
<1>20. FeatureFits'
  BY <1>1, <1>2, <1>3, <1>5 DEF IInv, FeatureFits
<1>21. ApprovalHolds'
  <2>1. CASE ~steps.review
    BY <1>2, <1>7, <2>1 DEF IInv, ApprovalHolds
  <2>2. CASE steps.review /\ branch.approved # 0
    <3>1. r = "lead" /\ att["lead"].kind = "update"
      BY <1>1, <1>2, <1>3, <2>2 DEF IInv, ApprovalHolds
    <3>2. res.commit # branch.approved /\ result'["lead"].commit = res.commit
      BY <1>4, <1>6, <1>7, <2>2, <3>1 DEF IInv, CommitsBehind, Typed, BranchType
    <3> QED
      BY <1>1, <1>2, <1>5, <1>6, <1>7, <1>11, <2>2, <3>1, <3>2 DEF IInv, ApprovalHolds
  <2>3. CASE branch.approved = 0
    BY <1>7, <2>3 DEF ApprovalHolds
  <2> QED
    BY <2>1, <2>2, <2>3
<1>22. RoundsCalled'
  <2>1. RoundsFollow' /\ \A n : Called(n) => Called(n)'
    BY <1>2 DEF IInv, RoundsCalled, RoundsFollow, Called
  <2> QED
    BY <1>1, <1>2, <1>5, <2>1 DEF IInv, RoundsCalled
<1>23. ImplementationsFit'
  BY <1>1, <1>2, <1>3, <1>5, <1>6 DEF IInv, ImplementationsFit
<1>24. ChecksFit' /\ MergeHolds'
  BY <1>2, <1>3, <1>7 DEF IInv, ChecksFit, Of, MergeHolds
<1> QED
  BY <1>13, <1>14, <1>15, <1>16, <1>17, <1>18, <1>19, <1>20, <1>21, <1>22, <1>23, <1>24 DEF IInv

LEMMA AdmitKeeps ==
    ASSUME IInv, NEW r \in Roles, Admit(r)
    PROVE  IInv'
<1> DEFINE a == pc[r].next
<1>1. "lead" \in Roles /\ "reviewer" \in Roles /\ \A x \in Roles : x = "lead" \/ x = "reviewer"
  BY DEF Roles
<1>2. /\ pc[r].at = "admit" /\ UNCHANGED <<steps, feature, log, tests, branch, checks, down>> /\ RunOK(run)
  BY DEF Admit, IInv, Typed
<1>3. CASE ~MayAdmit(r, a)
  <2>1. RequireReview(r) /\ UNCHANGED <<att, sess, result, intent>>
    BY <1>3 DEF Admit
  <2> QED
    BY <1>2, <2>1, RefusalKeeps
<1>4. CASE MayAdmit(r, a)
  <2>1. /\ att' = [att EXCEPT ![r] = a] /\ sess' = [sess EXCEPT ![r] = "running"]
        /\ result' = [result EXCEPT ![r] = NoResult] /\ pc' = [pc EXCEPT ![r] = [Rest EXCEPT !.at = "turn"]]
        /\ intent' = IF a.kind = "update" THEN FALSE ELSE intent
        /\ Runs(run)
    BY <1>4 DEF Admit
  <2>2. RunOK(run')
    BY <1>2, <2>1, WaitsOK
  <2>3. sess[r] = "waiting"
    BY <1>4 DEF MayAdmit
  <2>4. /\ r = "lead" => a.kind \in LeadKinds
        /\ r = "reviewer" => a.kind = "review"
    BY <1>1, <1>2 DEF IInv, PlacesFit
  <2>5. AttemptOK(a)
    BY <1>1, <1>2 DEF IInv, PlacesFit
  <2>6. /\ PcOK(pc') /\ pc'[r].at = "turn" /\ \A x \in Roles : x # r => pc'[x] = pc[x]
    <3> DEFINE p == [Rest EXCEPT !.at = "turn"]
    <3>1. PcOK(pc) /\ pc' = Placed(r, p)
      BY <2>1 DEF IInv, Typed, Placed
    <3>2. p.at \in Places /\ p = [at |-> p.at, next |-> p.next] /\ p.at = "turn"
      BY DEF Places, Rest
    <3> HIDE DEF p
    <3>3. PcOK(Placed(r, p)) /\ Placed(r, p)[r] = p /\ \A x \in Roles : x # r => Placed(r, p)[x] = pc[x]
      BY <3>1, <3>2, PcMoves
    <3> QED
      BY <3>1, <3>2, <3>3
  <2>7. /\ att' = [x \in Roles |-> att'[x]] /\ att'[r] = a /\ \A x \in Roles : x # r => att'[x] = att[x]
    <3>1. att = [x \in Roles |-> att[x]]
      BY DEF IInv, Typed
    <3> QED
      BY <2>1, <3>1
  <2>8. /\ sess' \in [Roles -> {"running", "waiting"}] /\ sess'[r] = "running" /\ \A x \in Roles : x # r => sess'[x] = sess[x]
    BY <2>1 DEF IInv, Typed
  <2>9. /\ result' \in [Roles -> ResultType] /\ result'[r].commit = 0 /\ \A x \in Roles : x # r => result'[x] = result[x]
    BY <2>1 DEF IInv, Typed, NoResult, ResultType, Facts
  <2>10. /\ feature \notin {"ready_to_merge", "completed"} /\ branch.merged = 0 /\ ~down /\ ~intent' /\ intent' \in BOOLEAN
    <3>1. feature \notin {"ready_to_merge", "completed"} /\ branch.merged = 0 /\ ~down
      BY <1>1, <1>2 DEF IInv, FeatureFits, MergeHolds, PlacesFit
    <3>2. intent => a.kind = "update"
      BY <1>1, <1>2 DEF IInv, FeatureFits
    <3> QED
      BY <2>1, <3>1, <3>2 DEF IInv, Typed
  <2> HIDE DEF a
  <2>11. r = "reviewer" => /\ steps.review /\ branch.approved = 0 /\ feature = "reviewing" /\ pc["lead"].at \in {"idle", "join"}
                           /\ att["lead"].kind = "readiness" => a.n > att["lead"].n
                           /\ a.n > 1 => Called(a.n)
    BY <1>1, <1>2 DEF IInv, NoReviewer, ReviewStarts, RoundsCalled, a
  <2>12. r = "lead" => /\ pc["reviewer"].at # "admit"
                       /\ a.kind = "readiness" => Approval(a.n) /\ pc["reviewer"].at = "idle"
                       /\ a.kind = "implementation" => att["lead"].kind = "implementation" /\ a.n > att["lead"].n
                       /\ ~steps.review => a.kind \in {"implementation", "update"}
                       /\ steps.review /\ branch.approved # 0 => a.kind = "update"
    BY <1>1, <1>2 DEF IInv, ReviewStarts, ReadinessHolds, FeatureFits, NoReviewer, ApprovalHolds, ImplementationsFit, a
  <2>13. r = "lead" => \A m : Approval(m) => Approval(m)'
    BY <1>1, <1>2, <2>7, <2>8, <2>9 DEF Approval
  <2>14. \A m : Called(m) => Called(m)'
    BY <1>2 DEF Called
  <2>15. Typed'
    <3>1. \A x \in Roles : AttemptOK(att'[x])
      BY <2>5, <2>7 DEF IInv, Typed
    <3>2. att'["lead"].kind \in LeadKinds /\ att'["reviewer"].kind \in ReviewerKinds
      BY <1>1, <2>4, <2>7 DEF IInv, Typed, ReviewerKinds
    <3> QED
      BY <1>2, <2>2, <2>6, <2>7, <2>8, <2>9, <2>10, <3>1, <3>2 DEF IInv, Typed
  <2>16. PlacesFit'
    BY <1>1, <1>2, <2>4, <2>6, <2>7, <2>8, <2>10 DEF IInv, PlacesFit
  <2>17. CommitsBehind'
    BY <1>1, <1>2, <2>9 DEF IInv, CommitsBehind, Typed, BranchType
  <2>18. TestsFit'
    BY <1>1, <1>2, <2>3, <2>4, <2>7, <2>8 DEF IInv, TestsFit
  <2>19. NoReviewer'
    BY <1>1, <1>2, <2>6, <2>7, <2>8, <2>11, <2>12 DEF IInv, NoReviewer
  <2>20. ReviewStarts'
    BY <1>1, <1>2, <2>6, <2>12 DEF ReviewStarts
  <2>21. ReadinessHolds'
    <3>1. CASE r = "lead"
      BY <1>1, <2>6, <2>7, <2>12, <2>13, <3>1 DEF IInv, ReadinessHolds, Approval, Typed, AttemptOK
    <3>2. CASE r = "reviewer"
      BY <1>1, <2>4, <2>5, <2>6, <2>7, <2>11, <3>2 DEF ReadinessHolds, IInv, Typed, AttemptOK
    <3> QED
      BY <1>1, <3>1, <3>2
  <2>22. FeatureFits'
    BY <1>1, <1>2, <2>6, <2>7, <2>10, <2>11, <2>12 DEF IInv, FeatureFits
  <2>23. ApprovalHolds'
    <3>1. CASE ~steps.review
      BY <1>2, <3>1 DEF IInv, ApprovalHolds
    <3>2. CASE steps.review /\ branch.approved # 0
      <4>1. r = "lead" /\ a.kind = "update"
        BY <1>1, <2>11, <2>12, <3>2
      <4> QED
        BY <1>1, <1>2, <2>6, <2>7, <2>8, <2>9, <2>13, <3>2, <4>1 DEF IInv, ApprovalHolds
    <3>3. CASE branch.approved = 0
      BY <1>2, <3>3 DEF ApprovalHolds
    <3> QED
      BY <3>1, <3>2, <3>3
  <2>24. RoundsCalled'
    <3>1. RoundsFollow'
      BY <1>2 DEF IInv, RoundsCalled, RoundsFollow
    <3>2. CASE r = "lead"
      BY <1>1, <2>6, <2>7, <2>12, <2>14, <3>1, <3>2 DEF IInv, RoundsCalled
    <3>3. CASE r = "reviewer"
      <4>1. PICK m : m = a.n
        OBVIOUS
      <4>2. att'["reviewer"].n = m /\ (m > 1 => Called(m)')
        BY <2>7, <2>11, <2>14, <3>3, <4>1
      <4>3. att'["reviewer"].n > 1 => Called(att["reviewer"].n)'
        BY <4>2 DEF Called
      <4> QED
        BY <1>1, <2>6, <2>7, <3>1, <3>3, <4>3 DEF RoundsCalled
    <3> QED
      BY <1>1, <3>2, <3>3
  <2>25. ImplementationsFit'
    <3>1. CASE r = "lead"
      <4>1. a.kind = "implementation" => a.n \in Nat /\ att["lead"].n \in Nat
        BY <2>5, <2>12, <3>1, <1>1 DEF AttemptOK, IInv, Typed
      <4>2. att["reviewer"].kind = "acceptance" => pc["reviewer"].at \notin {"turn", "verify", "join"}
        BY <1>2, <3>1 DEF IInv, ImplementationsFit
      <4> QED
        BY <1>1, <1>2, <2>6, <2>7, <2>8, <2>12, <3>1, <4>1, <4>2 DEF IInv, ImplementationsFit
    <3>2. CASE r = "reviewer"
      BY <1>1, <1>2, <2>4, <2>6, <2>7, <2>8, <2>11, <3>2 DEF IInv, ImplementationsFit
    <3> QED
      BY <1>1, <3>1, <3>2
  <2>26. ChecksFit' /\ MergeHolds'
    BY <1>2, <2>10 DEF IInv, ChecksFit, Of, MergeHolds
  <2> QED
    BY <2>15, <2>16, <2>17, <2>18, <2>19, <2>20, <2>21, <2>22, <2>23, <2>24, <2>25, <2>26 DEF IInv
<1> QED
  BY <1>3, <1>4

-----------------------------------------------------------------------------
(* Rows and checks alone.                                                  *)

\* Nothing but the run's row and the checks changes, before the merge.
LEMMA RowKeeps ==
    ASSUME IInv, RunOK(run'), branch.merged = 0, checks' \subseteq CheckType, ChecksFit',
           down' \in BOOLEAN, down' => down,
           UNCHANGED <<steps, feature, sess, att, result, log, tests, branch, intent, pc>>
    PROVE  IInv'
<1>1. Typed'
  BY DEF IInv, Typed
<1>2. PlacesFit' /\ CommitsBehind' /\ TestsFit' /\ NoReviewer' /\ ReviewStarts'
  BY DEF IInv, PlacesFit, CommitsBehind, TestsFit, NoReviewer, ReviewStarts
<1>3. ReadinessHolds' /\ FeatureFits' /\ ApprovalHolds'
  BY DEF IInv, ReadinessHolds, FeatureFits, ApprovalHolds, Approval
<1>4. RoundsCalled' /\ ImplementationsFit'
  BY DEF IInv, RoundsCalled, RoundsFollow, Called, ImplementationsFit
<1>5. MergeHolds'
  BY DEF MergeHolds
<1> QED
  BY <1>1, <1>2, <1>3, <1>4, <1>5 DEF IInv

\* A check that passed stays the latest of its commit, and passed.
LEMMA PassedStays ==
    ASSUME checks \subseteq CheckType, ChecksFit, NEW k \in checks, NEW status \in {"passed", "failed"},
           k.status \in {"pending", "late", status}, NEW c, CheckStatus(c) = "passed",
           checks' = Restated(k, [k EXCEPT !.status = status])
    PROVE  CheckStatus(c)' = "passed"
<1> DEFINE done == [k EXCEPT !.status = status]
           last == LatestCheck(c)
<1>1. k \in CheckType /\ done \in CheckType /\ done.commit = k.commit /\ done.attempt = k.attempt /\ done.status = status
  BY DEF CheckType
<1>2. Of(c) # {} /\ last.status = "passed"
  BY DEF CheckStatus
<1>3. last \in checks /\ last.commit = c /\ \A x \in checks : x.commit = c => x.attempt <= last.attempt
  BY <1>2, LatestIsLatest DEF Of
<1> HIDE DEF last
<1>4. k = last => done = k
  <2>1. ASSUME k = last PROVE status = "passed"
    BY <1>2, <2>1
  <2>2. k = last => done = [k EXCEPT !.status = k.status]
    BY <1>2, <2>1
  <2>3. [k EXCEPT !.status = k.status] = k
    BY <1>1 DEF CheckType
  <2> QED
    BY <2>2, <2>3
<1> HIDE DEF done
<1>5. \A x \in checks' : x = done \/ (x \in checks /\ x # k)
  BY DEF Restated, done
<1>6. last \in checks'
  <2>1. checks' = (checks \ {k}) \cup {done}
    BY DEF Restated, done
  <2> QED
    BY <1>3, <1>4, <2>1
<1>7. \A x \in checks' : x.commit = c => x.attempt <= last.attempt
  BY <1>1, <1>3, <1>5
<1>8. ChecksFit' /\ checks' \subseteq CheckType
  BY <1>1, RestatedFits DEF done
<1>9. \A x \in checks' : x.commit = c /\ (\A y \in checks' : y.commit = c => y.attempt <= x.attempt) => x = last
  <2>1. \A x \in checks' : x.attempt \in Nat
    BY <1>8 DEF CheckType
  <2> QED
    BY <1>3, <1>6, <1>7, <1>8, <2>1 DEF ChecksFit
<1>10. (Of(c) # {})' /\ LatestCheck(c)' = last
  <2>1. last \in Of(c)' /\ \A x \in Of(c)' : x.attempt <= last.attempt
    BY <1>3, <1>6, <1>7 DEF Of
  <2>2. \A x \in Of(c)' : (\A y \in Of(c)' : y.attempt <= x.attempt) => x = last
    BY <1>9 DEF Of
  <2> QED
    BY <2>1, <2>2 DEF LatestCheck
<1> QED
  BY <1>2, <1>10 DEF CheckStatus

LEMMA CompleteCheckKeeps ==
    ASSUME IInv, NEW k \in checks, NEW status \in {"passed", "failed"}, CompleteCheck(k, status)
    PROVE  IInv'
<1> DEFINE done == [k EXCEPT !.status = status]
<1>1. /\ checks' = Restated(k, done) /\ k.status \in {"pending", "late", status}
      /\ UNCHANGED <<steps, run, feature, sess, att, result, log, tests, branch, intent, pc, down>>
  BY DEF CompleteCheck, Restated
<1>2. checks \subseteq CheckType /\ ChecksFit
  BY DEF IInv, Typed
<1>3. done \in CheckType /\ done.commit = k.commit /\ done.attempt = k.attempt
  BY <1>2 DEF CheckType
<1>4. checks' \subseteq CheckType /\ ChecksFit'
  <2> HIDE DEF done
  <2> QED
    BY <1>1, <1>2, <1>3, RestatedFits
<1>5. CheckStatus(branch.merged) = "passed" => CheckStatus(branch.merged)' = "passed"
  <2>1. PICK c : c = branch.merged
    OBVIOUS
  <2>2. CheckStatus(c) = "passed" => CheckStatus(c)' = "passed"
    BY <1>1, <1>2, PassedStays
  <2>3. CheckStatus(c)' = CheckStatus(branch.merged)'
    BY <1>1, <2>1
  <2> QED
    BY <2>1, <2>2, <2>3
<1>6. Typed'
  BY <1>1, <1>4 DEF IInv, Typed
<1>7. PlacesFit' /\ CommitsBehind' /\ TestsFit' /\ NoReviewer' /\ ReviewStarts'
  BY <1>1 DEF IInv, PlacesFit, CommitsBehind, TestsFit, NoReviewer, ReviewStarts
<1>8. ReadinessHolds' /\ FeatureFits' /\ ApprovalHolds'
  BY <1>1 DEF IInv, ReadinessHolds, FeatureFits, ApprovalHolds, Approval
<1>9. RoundsCalled' /\ ImplementationsFit'
  BY <1>1 DEF IInv, RoundsCalled, RoundsFollow, Called, ImplementationsFit
<1>10. MergeHolds'
  BY <1>1, <1>5 DEF IInv, MergeHolds
<1> QED
  BY <1>4, <1>6, <1>7, <1>8, <1>9, <1>10 DEF IInv

LEMMA BlockOverdueCheckKeeps ==
    ASSUME IInv, NEW k \in checks, BlockOverdueCheck(k)
    PROVE  IInv'
<1> DEFINE done == [k EXCEPT !.status = "late"]
<1>1. /\ checks' = Restated(k, done) /\ run.status = "waiting" /\ waitRun("blocker", "no_desktop")
      /\ UNCHANGED <<steps, feature, sess, att, result, log, tests, branch, intent, pc, down>>
  BY DEF BlockOverdueCheck, Restated
<1>2. checks \subseteq CheckType /\ ChecksFit /\ RunOK(run) /\ branch.merged = 0
  BY <1>1 DEF IInv, Typed, MergeHolds
<1>3. done \in CheckType /\ done.commit = k.commit /\ done.attempt = k.attempt
  BY <1>2 DEF CheckType
<1>4. checks' \subseteq CheckType /\ ChecksFit' /\ RunOK(run')
  <2> HIDE DEF done
  <2> QED
    BY <1>1, <1>2, <1>3, RestatedFits, WaitsMade
<1> QED
  BY <1>1, <1>2, <1>4, RowKeeps DEF IInv, Typed

-----------------------------------------------------------------------------
(* The gate, updates onto main, the merge.                                 *)

\* The gate again: the wait for the check, the user or the app, or a fix by the lead.
LEMMA RecoverAtGateKeeps ==
    ASSUME IInv, NEW row, RunOK(row), NEW chosen, RecoverAtGate(row, chosen), down' = FALSE,
           UNCHANGED <<steps, sess, att, result, log, tests, intent>>
    PROVE  IInv'
<1>1. "lead" \in Roles /\ "reviewer" \in Roles /\ \A x \in Roles : x = "lead" \/ x = "reviewer"
  BY DEF Roles
<1>2. /\ feature = "ready_to_merge" /\ ~intent /\ branch.merged = 0 /\ branch \in BranchType
      /\ checks \subseteq CheckType /\ ChecksFit /\ branch.approved \in Nat
      /\ \A x \in Roles : pc[x].at = "idle" /\ sess[x] = "waiting"
  BY DEF RecoverAtGate, IInv, Typed, MergeHolds, FeatureFits, BranchType
<1>3. CASE AtTheGate(row, branch.approved) /\ UNCHANGED <<pc, feature, branch>>
  <2>1. RunOK(run') /\ checks' \subseteq CheckType /\ ChecksFit'
    BY <1>2, <1>3, AtTheGateKeeps
  <2> QED
    BY <1>2, <1>3, <2>1, RowKeeps
<1>4. CASE PreviewCheckFailed(row, chosen) /\ UNCHANGED checks /\ ~MayFix(chosen)
  <2>1. Waits(row, "blocker", "preview_failed") /\ UNCHANGED <<pc, feature, branch>>
    BY <1>4 DEF PreviewCheckFailed
  <2>2. RunOK(run')
    BY <2>1, WaitsOK DEF WaitKinds, Whys
  <2>3. ChecksFit' /\ checks' \subseteq CheckType
    BY <1>2, <1>4 DEF ChecksFit, Of
  <2> QED
    BY <1>2, <2>1, <2>2, <2>3, RowKeeps
<1>5. CASE PreviewCheckFailed(row, chosen) /\ UNCHANGED checks /\ MayFix(chosen)
  <2> DEFINE a == Again(att["lead"])
             w == [at |-> "admit", next |-> a]
  <2>1. /\ branch' = [branch EXCEPT !.approved = 0] /\ feature' = "implementing" /\ Runs(row)
        /\ pc' = Placed("lead", w) /\ att["lead"].kind = "implementation"
    BY <1>5 DEF PreviewCheckFailed, Placed, MayFix, Is
  <2>2. RunOK(run')
    BY <2>1, WaitsOK
  <2>3. att["lead"] = [kind |-> "implementation", n |-> att["lead"].n] /\ att["lead"].n \in Nat \ {0}
    BY <1>1, <2>1 DEF IInv, Typed, AttemptOK
  <2>4. AttemptOK(a) /\ a.kind = "implementation" /\ a.n > att["lead"].n
    BY <2>3 DEF Again, AttemptOK, Kinds
  <2>5. ~steps.review
    BY <1>2, <2>1 DEF IInv, FeatureFits
  <2> HIDE DEF a
  <2>6. PcOK(pc') /\ pc'["lead"] = w /\ pc'["reviewer"] = pc["reviewer"]
    <3>1. w.at \in Places /\ w = [at |-> w.at, next |-> w.next] /\ PcOK(pc)
      BY DEF Places, IInv, Typed
    <3> HIDE DEF w
    <3> QED
      BY <1>1, <2>1, <3>1, PcMoves
  <2>7. pc'["lead"].at = "admit" /\ pc'["lead"].next = a /\ pc'["reviewer"].at = "idle"
    BY <1>1, <1>2, <2>6
  <2> HIDE DEF w
  <2>8. /\ branch' \in BranchType /\ branch'.approved = 0 /\ branch'.head = branch.head /\ branch'.merged = 0
    BY <1>2, <2>1 DEF BranchType
  <2>9. Typed'
    BY <1>5, <2>1, <2>2, <2>6, <2>8 DEF IInv, Typed
  <2>10. PlacesFit'
    BY <1>1, <1>2, <2>4, <2>7 DEF IInv, PlacesFit, LeadKinds
  <2>11. CommitsBehind' /\ TestsFit'
    BY <2>8, <1>2 DEF IInv, CommitsBehind, TestsFit, BranchType
  <2>12. NoReviewer'
    BY <2>4, <2>7 DEF IInv, NoReviewer
  <2>13. ReviewStarts' /\ ReadinessHolds' /\ ApprovalHolds'
    BY <2>1, <2>4, <2>7, <2>8 DEF ReviewStarts, ReadinessHolds, ApprovalHolds
  <2>14. FeatureFits'
    BY <1>1, <1>2, <2>1, <2>4, <2>5, <2>7 DEF IInv, FeatureFits, NoReviewer
  <2>15. RoundsCalled'
    BY <2>7 DEF IInv, RoundsCalled, RoundsFollow, Called
  <2>16. ImplementationsFit'
    BY <2>4, <2>7 DEF IInv, ImplementationsFit
  <2>17. ChecksFit' /\ MergeHolds'
    BY <1>2, <1>5, <2>8 DEF ChecksFit, Of, MergeHolds
  <2> QED
    BY <2>9, <2>10, <2>11, <2>12, <2>13, <2>14, <2>15, <2>16, <2>17 DEF IInv
<1> QED
  BY <1>3, <1>4, <1>5 DEF RecoverAtGate

LEMMA PreviewCheckCompletedKeeps ==
    ASSUME IInv, NEW k \in told, PreviewCheckCompleted(k)
    PROVE  IInv'
<1>1. down' = FALSE /\ UNCHANGED <<steps, sess, att, result, log, tests, intent, down>> /\ RunOK(run)
  BY DEF PreviewCheckCompleted, IInv, Typed
<1>2. CASE RecoverAtGate(run, FALSE)
  BY <1>1, <1>2, RecoverAtGateKeeps
<1>3. CASE UNCHANGED <<run, pc, feature, branch, checks>>
  <2>1. Typed' /\ PlacesFit' /\ CommitsBehind' /\ TestsFit' /\ NoReviewer' /\ ReviewStarts'
    BY <1>1, <1>3 DEF IInv, Typed, PlacesFit, CommitsBehind, TestsFit, NoReviewer, ReviewStarts
  <2>2. ReadinessHolds' /\ FeatureFits' /\ ApprovalHolds'
    BY <1>1, <1>3 DEF IInv, ReadinessHolds, FeatureFits, ApprovalHolds, Approval
  <2>3. RoundsCalled' /\ ImplementationsFit'
    BY <1>1, <1>3 DEF IInv, RoundsCalled, RoundsFollow, Called, ImplementationsFit
  <2>4. ChecksFit' /\ MergeHolds'
    BY <1>1, <1>3 DEF IInv, ChecksFit, Of, MergeHolds, CheckStatus, LatestCheck
  <2> QED
    BY <2>1, <2>2, <2>3, <2>4 DEF IInv
<1> QED
  BY <1>2, <1>3 DEF PreviewCheckCompleted

\* The lead is asked to take main in, while an approval stands and nobody is at work.
LEMMA UpdateStarts ==
    ASSUME IInv, \A x \in Roles : pc[x].at = "idle" /\ sess[x] = "waiting", branch.approved # 0, branch.merged = 0,
           intent', feature' \in {"implementing", "reviewing"}, steps.review => feature' = "reviewing",
           NEW u, u = Attempt("update", u.n), down' = FALSE, pc' = Placed("lead", [at |-> "admit", next |-> u]),
           RunOK(run'), intent' \in BOOLEAN,
           UNCHANGED <<steps, sess, att, result, log, tests, branch, checks>>
    PROVE  IInv'
<1> DEFINE w == [at |-> "admit", next |-> u]
<1>1. "lead" \in Roles /\ "reviewer" \in Roles /\ \A x \in Roles : x = "lead" \/ x = "reviewer"
  BY DEF Roles
<1>2. u = [kind |-> "update", n |-> u.n]
  BY DEF Attempt
<1>3. u.kind = "update"
  BY <1>2
<1>4. AttemptOK(u)
  BY <1>2, <1>3 DEF AttemptOK, Kinds
<1>5. PcOK(pc') /\ pc'["lead"] = w /\ pc'["reviewer"] = pc["reviewer"]
  <2>1. w.at \in Places /\ w = [at |-> w.at, next |-> w.next] /\ PcOK(pc)
    BY DEF Places, IInv, Typed
  <2> HIDE DEF w
  <2> QED
    BY <1>1, <2>1, PcMoves DEF w
<1>6. pc'["lead"].at = "admit" /\ pc'["lead"].next = u /\ pc'["reviewer"].at = "idle"
  BY <1>1, <1>5
<1> HIDE DEF w
<1>7. Typed'
  BY <1>5 DEF IInv, Typed
<1>8. PlacesFit'
  BY <1>1, <1>3, <1>4, <1>6 DEF IInv, PlacesFit, LeadKinds
<1>9. CommitsBehind' /\ TestsFit' /\ ReviewStarts'
  BY <1>6 DEF IInv, CommitsBehind, TestsFit, ReviewStarts
<1>10. NoReviewer'
  BY <1>3, <1>6 DEF IInv, NoReviewer
<1>11. \A m : Approval(m) => Approval(m)'
  BY DEF Approval
<1>12. ReadinessHolds'
  BY <1>1, <1>3, <1>6, <1>11 DEF IInv, ReadinessHolds
<1>13. FeatureFits'
  BY <1>1, <1>3, <1>6 DEF IInv, FeatureFits, NoReviewer
<1>14. ApprovalHolds'
  BY <1>1, <1>3, <1>6, <1>11 DEF IInv, ApprovalHolds
<1>15. RoundsCalled'
  BY <1>6 DEF IInv, RoundsCalled, RoundsFollow, Called
<1>16. ImplementationsFit'
  BY <1>3, <1>6 DEF IInv, ImplementationsFit
<1>17. ChecksFit' /\ MergeHolds'
  BY DEF IInv, ChecksFit, Of, MergeHolds
<1> QED
  BY <1>7, <1>8, <1>9, <1>10, <1>12, <1>13, <1>14, <1>15, <1>16, <1>17 DEF IInv

LEMMA StartBaseUpdateKeeps ==
    ASSUME IInv, StartBaseUpdate
    PROVE  IInv'
<1> DEFINE u == Attempt("update", NextUpdate)
<1>1. /\ \A x \in Roles : pc[x].at = "idle" /\ sess[x] = "waiting"
      /\ branch.approved # 0 /\ branch.merged = 0 /\ intent' = TRUE
      /\ feature' = IF steps.review THEN "reviewing" ELSE "implementing"
      /\ pc' = Placed("lead", [at |-> "admit", next |-> u])
      /\ UNCHANGED <<steps, run, sess, att, result, log, tests, branch, checks, down>> /\ ~down
  BY DEF StartBaseUpdate, MayUpdate, IInv, FeatureFits, Placed
<1>2. u = Attempt("update", u.n)
  BY DEF Attempt
<1>3. RunOK(run') /\ intent' \in BOOLEAN /\ intent' /\ down' = FALSE
  BY <1>1 DEF IInv, Typed
<1>4. feature' \in {"implementing", "reviewing"} /\ (steps.review => feature' = "reviewing")
  BY <1>1
<1> HIDE DEF u
<1> QED
  BY <1>1, <1>2, <1>3, <1>4, UpdateStarts

LEMMA MergeKeeps ==
    ASSUME IInv, Merge
    PROVE  IInv'
<1>1. /\ feature = "ready_to_merge" /\ branch.head = branch.approved /\ branch.approved # 0
      /\ steps.preview => CheckStatus(branch.approved) = "passed"
      /\ branch' = [branch EXCEPT !.merged = branch.head] /\ feature' = "completed"
      /\ run' = Moved(run, "succeeded", "none", "none")
      /\ UNCHANGED <<steps, sess, att, result, log, tests, checks, intent, pc, down>>
  BY DEF Merge, MayMerge, Tip
<1>2. /\ branch' \in BranchType /\ branch'.merged = branch.approved /\ branch'.approved = branch.approved
      /\ branch'.head = branch.head
  BY <1>1 DEF IInv, Typed, BranchType
<1>3. RunOK(run') /\ run'.status = "succeeded" /\ ~run'.paused /\ run'.kind = "none"
  <2>1. "succeeded" \in RunStatuses /\ "succeeded" \in RunEnds /\ "none" \in Whys /\ RunOK(run)
    BY DEF RunStatuses, RunEnds, Whys, IInv, Typed
  <2> QED
    BY <1>1, <2>1, MovedOK
<1>4. CheckStatus(branch.approved)' = CheckStatus(branch.approved)
  BY <1>1, <1>2 DEF CheckStatus, LatestCheck, Of
<1>5. Typed'
  BY <1>1, <1>2, <1>3 DEF IInv, Typed
<1>6. PlacesFit' /\ NoReviewer'
  BY <1>1 DEF IInv, PlacesFit, NoReviewer
<1>7. CommitsBehind' /\ TestsFit'
  BY <1>1, <1>2 DEF IInv, CommitsBehind, TestsFit
<1>8. ReviewStarts'
  BY <1>1, <1>2 DEF IInv, ReviewStarts
<1>9. ReadinessHolds' /\ FeatureFits' /\ ApprovalHolds'
  BY <1>1, <1>2 DEF IInv, ReadinessHolds, FeatureFits, ApprovalHolds, Approval
<1>10. RoundsCalled' /\ ImplementationsFit'
  BY <1>1 DEF IInv, RoundsCalled, RoundsFollow, Called, ImplementationsFit
<1>11. ChecksFit'
  BY <1>1 DEF IInv, ChecksFit, Of
<1>12. MergeHolds'
  <2>1. CheckStatus(branch.merged)' = CheckStatus(branch.approved)
    BY <1>1, <1>2 DEF CheckStatus, LatestCheck, Of
  <2> QED
    BY <1>1, <1>2, <1>3, <2>1 DEF MergeHolds
<1> QED
  BY <1>5, <1>6, <1>7, <1>8, <1>9, <1>10, <1>11, <1>12 DEF IInv

-----------------------------------------------------------------------------
(* Recovery.                                                               *)

\* Whose result is looked at again when nobody is at work and nothing approved
\* is at the gate.
LEMMA SpeakerIs ==
    ASSUME IInv, ~intent, feature \in {"implementing", "reviewing"}
    PROVE  /\ Speaker \in Roles
           /\ Speaker = "reviewer" => /\ att["reviewer"].kind = "review" /\ steps.review
                                      /\ feature = "reviewing" /\ branch.approved = 0
                                      /\ att["lead"].kind = "readiness" => att["reviewer"].n > att["lead"].n
           /\ Speaker = "lead" /\ att["lead"].kind = "readiness" => att["reviewer"].n = att["lead"].n
           /\ branch.approved # 0 /\ steps.review => att["lead"].kind = "update"
<1>1. /\ att["lead"].kind \in {"correction", "readiness"} => att["lead"].n \in Nat
      /\ att["reviewer"].n \in Nat
  BY DEF IInv, Typed, AttemptOK, Roles, ReviewerKinds
<1>2. branch.approved # 0 /\ steps.review => /\ att["lead"].kind = "update"
                                             /\ result["reviewer"].commit # result["lead"].commit
  BY DEF IInv, ApprovalHolds, FeatureFits, Approval
<1>3. Speaker \in Roles
  BY DEF Speaker, Roles
<1>4. ASSUME Speaker = "reviewer"
      PROVE  /\ att["reviewer"].kind = "review" /\ steps.review
             /\ feature = "reviewing" /\ branch.approved = 0
             /\ att["lead"].kind = "readiness" => att["reviewer"].n > att["lead"].n
  <2>1. /\ feature # "implementing" /\ att["reviewer"].kind = "review"
        /\ ~(att["lead"].kind = "update" /\ result["reviewer"].commit # result["lead"].commit)
        /\ att["lead"].kind = "readiness" => att["reviewer"].n > att["lead"].n
    BY <1>4 DEF Speaker, Is
  <2>2. steps.review
    BY <2>1 DEF IInv, NoReviewer
  <2> QED
    BY <1>2, <2>1, <2>2
<1>5. ASSUME Speaker = "lead", att["lead"].kind = "readiness" PROVE att["reviewer"].n = att["lead"].n
  <2>1. att["reviewer"].kind = "review" /\ att["reviewer"].n >= att["lead"].n /\ feature # "implementing"
    BY <1>5 DEF IInv, ReadinessHolds, FeatureFits
  <2>2. ~(att["reviewer"].n > att["lead"].n)
    BY <1>5, <2>1 DEF Speaker, Is
  <2> QED
    BY <1>1, <1>5, <2>1, <2>2
<1> QED
  BY <1>2, <1>3, <1>4, <1>5

LEMMA AgainIs ==
    ASSUME NEW a, AttemptOK(a)
    PROVE  /\ AttemptOK(Again(a)) /\ Again(a).kind = a.kind
           /\ a.kind \in {"review", "readiness"} => Again(a).n = a.n
           /\ a.kind = "implementation" => Again(a).n > a.n
<1>1. a = [kind |-> a.kind, n |-> a.n] /\ (a.kind # "update" => a.n \in Nat \ {0}) /\ a.kind \in Kinds
  BY DEF AttemptOK
<1>2. CASE a.kind \in {"implementation", "acceptance", "update"}
  <2> DEFINE b == [kind |-> a.kind, n |-> a.n + 1]
  <2>1. Again(a) = b
    BY <1>1, <1>2 DEF Again
  <2>2. b.kind = a.kind /\ b.n = a.n + 1 /\ b = [kind |-> b.kind, n |-> b.n]
    OBVIOUS
  <2> HIDE DEF b
  <2>3. a.kind # "update" => b.n \in Nat \ {0} /\ b.n > a.n
    BY <1>1, <2>2
  <2> QED
    BY <1>1, <1>2, <2>1, <2>2, <2>3 DEF AttemptOK
<1>3. CASE a.kind \notin {"implementation", "acceptance", "update"}
  BY <1>3 DEF Again
<1> QED
  BY <1>2, <1>3

\* The speaker's result is verified again, or the speaker gets another turn.
LEMMA SpeakerKeeps ==
    ASSUME IInv, ~intent, feature \in {"implementing", "reviewing"},
           \A x \in Roles : pc[x].at = "idle" /\ sess[x] = "waiting",
           NEW w, w = [at |-> w.at, next |-> w.next], w.at \in {"verify", "admit"},
           w.at = "admit" => w.next = Again(att[Speaker]),
           pc' = Placed(Speaker, w), RunOK(run'), down' = FALSE,
           UNCHANGED <<steps, feature, sess, att, result, log, tests, branch, checks, intent>>
    PROVE  IInv'
<1> DEFINE s == Speaker
<1>1. "lead" \in Roles /\ "reviewer" \in Roles /\ \A x \in Roles : x = "lead" \/ x = "reviewer"
  BY DEF Roles
<1>2. /\ s \in Roles
      /\ s = "reviewer" => /\ att["reviewer"].kind = "review" /\ steps.review
                           /\ feature = "reviewing" /\ branch.approved = 0
                           /\ att["lead"].kind = "readiness" => att["reviewer"].n > att["lead"].n
      /\ s = "lead" /\ att["lead"].kind = "readiness" => att["reviewer"].n = att["lead"].n
      /\ branch.approved # 0 /\ steps.review => att["lead"].kind = "update"
  BY SpeakerIs
<1>3. pc' = Placed(s, w) /\ (w.at = "admit" => w.next = Again(att[s]))
  OBVIOUS
<1> HIDE DEF s
<1>4. /\ w.at = "admit" => /\ AttemptOK(w.next) /\ w.next.kind = att[s].kind
                           /\ att[s].kind \in {"review", "readiness"} => w.next.n = att[s].n
                           /\ att[s].kind = "implementation" => w.next.n > att[s].n
  <2>1. AttemptOK(att[s])
    BY <1>2 DEF IInv, Typed
  <2>2. /\ AttemptOK(Again(att[s])) /\ Again(att[s]).kind = att[s].kind
        /\ att[s].kind \in {"review", "readiness"} => Again(att[s]).n = att[s].n
        /\ att[s].kind = "implementation" => Again(att[s]).n > att[s].n
    BY <2>1, AgainIs
  <2> QED
    BY <1>3, <2>2
<1>5. PcOK(pc') /\ pc'[s] = w /\ \A x \in Roles : x # s => pc'[x] = pc[x]
  <2>1. w.at \in Places /\ PcOK(pc)
    BY DEF Places, IInv, Typed
  <2> QED
    BY <1>2, <1>3, <2>1, PcMoves
<1>6. /\ s = "lead" => pc'["lead"] = w /\ pc'["reviewer"].at = "idle"
      /\ s = "reviewer" => pc'["reviewer"] = w /\ pc'["lead"].at = "idle"
  BY <1>1, <1>5
<1>7. branch.merged = 0
  BY DEF IInv, MergeHolds
<1>8. \A m : (Approval(m) => Approval(m)') /\ (Called(m) => Called(m)')
  BY DEF Approval, Called
<1>9. att["lead"].kind \in LeadKinds
  BY DEF IInv, Typed
<1>10. Typed'
  BY <1>5 DEF IInv, Typed
<1>11. PlacesFit'
  BY <1>1, <1>2, <1>4, <1>6, <1>9 DEF IInv, PlacesFit
<1>12. CommitsBehind' /\ TestsFit'
  BY DEF IInv, CommitsBehind, TestsFit
<1>13. NoReviewer'
  BY <1>1, <1>2, <1>4, <1>6 DEF IInv, NoReviewer
<1>14. ReviewStarts'
  BY <1>1, <1>2, <1>4, <1>6 DEF ReviewStarts
<1>15. ReadinessHolds'
  <2>1. att["lead"].kind = "readiness" => att["lead"].n \in Nat /\ att["reviewer"].n \in Nat
    BY <1>1 DEF IInv, Typed, AttemptOK, ReviewerKinds
  <2>2. CASE s = "reviewer"
    BY <1>2, <1>6, <2>1, <2>2 DEF ReadinessHolds
  <2>3. CASE s = "lead" /\ att["lead"].kind = "readiness"
    <3>1. Approval(att["lead"].n)' /\ Approval(att["lead"].n)
      BY <1>2, <1>8, <2>3 DEF IInv, ReadinessHolds, Approval
    <3> QED
      BY <1>4, <1>6, <2>3, <3>1 DEF IInv, ReadinessHolds, Approval
  <2>4. CASE s = "lead" /\ att["lead"].kind # "readiness"
    BY <1>4, <1>6, <2>4 DEF IInv, ReadinessHolds
  <2> QED
    BY <1>1, <1>2, <2>2, <2>3, <2>4
<1>16. FeatureFits'
  BY <1>1, <1>2, <1>4, <1>6 DEF IInv, FeatureFits
<1>17. ApprovalHolds'
  BY <1>1, <1>2, <1>4, <1>6, <1>8 DEF IInv, ApprovalHolds
<1>18. RoundsCalled'
  <2>1. RoundsFollow'
    BY DEF IInv, RoundsCalled, RoundsFollow
  <2> QED
    BY <1>1, <1>2, <1>4, <1>6, <1>8, <2>1 DEF IInv, RoundsCalled
<1>19. ImplementationsFit'
  BY <1>1, <1>2, <1>4, <1>6 DEF IInv, ImplementationsFit
<1>20. ChecksFit' /\ MergeHolds'
  BY <1>7 DEF IInv, ChecksFit, Of, MergeHolds
<1> QED
  BY <1>10, <1>11, <1>12, <1>13, <1>14, <1>15, <1>16, <1>17, <1>18, <1>19, <1>20 DEF IInv

\* Turns the worker is still at are followed again.
LEMMA ReattachedKeeps ==
    ASSUME IInv, \A x \in Roles : pc[x].at = "idle", ~Resting, pc' = Reattached,
           RunOK(run'), down' = FALSE,
           UNCHANGED <<steps, feature, sess, att, result, log, tests, branch, checks, intent>>
    PROVE  IInv'
<1>1. "lead" \in Roles /\ "reviewer" \in Roles /\ \A x \in Roles : x = "lead" \/ x = "reviewer"
  BY DEF Roles
<1>2. \A x \in Roles : /\ sess[x] = "running" => pc'[x] = [Rest EXCEPT !.at = "turn"]
                       /\ sess[x] # "running" => pc'[x] = pc[x]
  BY DEF Reattached
<1>3. PcOK(pc')
  <2>1. pc' = [x \in Roles |-> pc'[x]]
    BY DEF Reattached
  <2>2. \A x \in Roles : pc[x] = [at |-> pc[x].at, next |-> pc[x].next] /\ pc[x].at \in Places
    BY DEF IInv, Typed, PcOK
  <2> DEFINE p == [Rest EXCEPT !.at = "turn"]
  <2>3. p = [at |-> p.at, next |-> p.next] /\ p.at \in Places
    BY DEF Rest, Places
  <2>4. \A x \in Roles : pc'[x] = p \/ pc'[x] = pc[x]
    BY <1>2
  <2> HIDE DEF p
  <2>5. \A x \in Roles : pc'[x] = [at |-> pc'[x].at, next |-> pc'[x].next] /\ pc'[x].at \in Places
    BY <2>2, <2>3, <2>4
  <2> QED
    BY <2>1, <2>5 DEF PcOK
<1>4. \A x \in Roles : /\ sess[x] = "running" => pc'[x].at = "turn"
                       /\ sess[x] # "running" => pc'[x].at = "idle"
  BY <1>2 DEF Rest
<1>5. feature \notin {"ready_to_merge", "completed"} /\ branch.merged = 0 /\ ~intent
  BY DEF IInv, FeatureFits, MergeHolds, Resting
<1>6. \A m : (Approval(m) => Approval(m)') /\ (Called(m) => Called(m)') /\ (Approval(m) => sess["reviewer"] = "waiting")
  BY DEF Approval, Called
<1>7. Typed'
  BY <1>3 DEF IInv, Typed
<1>8. PlacesFit'
  BY <1>1, <1>4 DEF IInv, PlacesFit
<1>9. CommitsBehind' /\ TestsFit'
  BY DEF IInv, CommitsBehind, TestsFit
<1>10. NoReviewer'
  BY <1>1, <1>4 DEF IInv, NoReviewer
<1>11. ReviewStarts'
  BY <1>1, <1>4 DEF ReviewStarts
<1>12. ReadinessHolds'
  BY <1>1, <1>4, <1>6 DEF IInv, ReadinessHolds
<1>13. FeatureFits'
  BY <1>1, <1>4, <1>5 DEF IInv, FeatureFits
<1>14. ApprovalHolds'
  BY <1>1, <1>4, <1>6 DEF IInv, ApprovalHolds
<1>15. RoundsCalled'
  <2>1. RoundsFollow'
    BY DEF IInv, RoundsCalled, RoundsFollow
  <2> QED
    BY <1>1, <1>4, <1>6, <2>1 DEF IInv, RoundsCalled
<1>16. ImplementationsFit'
  BY <1>1, <1>4 DEF IInv, ImplementationsFit
<1>17. ChecksFit' /\ MergeHolds'
  BY <1>5 DEF IInv, ChecksFit, Of, MergeHolds
<1> QED
  BY <1>7, <1>8, <1>9, <1>10, <1>11, <1>12, <1>13, <1>14, <1>15, <1>16, <1>17 DEF IInv

LEMMA RecoverKeeps ==
    ASSUME IInv, ~Busy, NEW row, RunOK(row), NEW chosen, Recover(row, chosen), branch.merged = 0, down' = FALSE,
           UNCHANGED <<steps, sess, att, result, log, tests, intent>>
    PROVE  IInv'
<1>1. \A x \in Roles : pc[x].at = "idle" /\ sess[x] \in {"running", "waiting"}
  BY DEF Busy, IInv, Typed
<1>2. CASE ~Resting /\ run' = row /\ pc' = Reattached /\ UNCHANGED <<feature, branch, checks>>
  BY <1>1, <1>2, ReattachedKeeps
<1>3. CASE Resting /\ RecoverAtGate(row, chosen)
  BY <1>3, RecoverAtGateKeeps
<1>4. CASE Resting /\ RecoverIdle(chosen) /\ run' = row
  <2>1. /\ \A x \in Roles : pc[x].at = "idle" /\ sess[x] = "waiting"
        /\ RunOK(run')
    BY <1>1, <1>4 DEF Resting
  <2>2. CASE intent /\ UNCHANGED <<feature, branch, checks>>
             /\ pc' = [pc EXCEPT !["lead"] = [at |-> "admit", next |-> Attempt("update", NextUpdate)]]
    <3> DEFINE u == Attempt("update", NextUpdate)
    <3>1. branch.approved # 0 /\ feature \in {"implementing", "reviewing"}
      BY <2>2 DEF IInv, FeatureFits
    <3>2. steps.review => feature = "reviewing"
      BY <3>1 DEF IInv, ApprovalHolds, Approval, FeatureFits
    <3>3. u = Attempt("update", u.n)
      BY DEF Attempt
    <3>4. pc' = Placed("lead", [at |-> "admit", next |-> u])
      BY <2>2 DEF Placed
    <3>5. intent' /\ intent' \in BOOLEAN /\ feature' = feature
      BY <2>2 DEF IInv, Typed
    <3> HIDE DEF u
    <3> QED
      BY <2>1, <2>2, <3>1, <3>2, <3>3, <3>4, <3>5, UpdateStarts
  <2>3. CASE ~intent /\ feature \in {"implementing", "reviewing"} /\ UNCHANGED <<feature, branch, checks>>
             /\ pc' = [pc EXCEPT ![Speaker] = [Rest EXCEPT !.at = "verify"]]
    <3> DEFINE w == [Rest EXCEPT !.at = "verify"]
    <3>1. w.at = "verify" /\ w = [at |-> w.at, next |-> w.next] /\ pc' = Placed(Speaker, w)
      BY <2>3 DEF Rest, Placed
    <3> HIDE DEF w
    <3> QED
      BY <2>1, <2>3, <3>1, SpeakerKeeps
  <2>4. CASE ~intent /\ feature \in {"implementing", "reviewing"} /\ Answer(Speaker)
    <3> DEFINE w == [at |-> "admit", next |-> Again(att[Speaker])]
    <3>1. /\ w.at = "admit" /\ w.next = Again(att[Speaker]) /\ w = [at |-> w.at, next |-> w.next]
          /\ pc' = Placed(Speaker, w) /\ UNCHANGED <<feature, branch, checks>>
      BY <2>4 DEF Answer, Placed
    <3> HIDE DEF w
    <3> QED
      BY <2>1, <2>4, <3>1, SpeakerKeeps
  <2> QED
    BY <1>4, <2>2, <2>3, <2>4 DEF RecoverIdle
<1> QED
  BY <1>2, <1>3, <1>4 DEF Recover

-----------------------------------------------------------------------------
(* Pauses, Continue, restarts and somebody else's pushes.                  *)

\* A step that changes none of the rows.
LEMMA NothingKeeps ==
    ASSUME IInv, down' = down \/ down' = FALSE,
           UNCHANGED <<steps, run, feature, sess, att, result, log, tests, branch, checks, intent, pc>>
    PROVE  IInv'
<1>0. Typed'
  BY DEF IInv, Typed
<1>1. PlacesFit' /\ CommitsBehind' /\ TestsFit' /\ NoReviewer' /\ ReviewStarts'
  BY DEF IInv, PlacesFit, CommitsBehind, TestsFit, NoReviewer, ReviewStarts
<1>2. ReadinessHolds' /\ FeatureFits' /\ ApprovalHolds'
  BY DEF IInv, ReadinessHolds, FeatureFits, ApprovalHolds, Approval
<1>3. RoundsCalled' /\ ImplementationsFit'
  BY DEF IInv, RoundsCalled, RoundsFollow, Called, ImplementationsFit
<1>4. ChecksFit' /\ MergeHolds'
  BY DEF IInv, ChecksFit, Of, MergeHolds, CheckStatus, LatestCheck
<1> QED
  BY <1>0, <1>1, <1>2, <1>3, <1>4 DEF IInv

LEMMA PauseKeeps ==
    ASSUME IInv, Pause
    PROVE  IInv'
<1>1. /\ run' = Paused(run) /\ run.status \notin RunEnds /\ RunOK(run)
      /\ UNCHANGED <<steps, feature, sess, att, result, log, tests, branch, checks, intent, pc, down>>
  BY DEF Pause, IInv, Typed
<1>2. RunOK(run') /\ branch.merged = 0
  BY <1>1, PausedOK DEF IInv, MergeHolds, RunEnds
<1>3. checks' \subseteq CheckType /\ ChecksFit' /\ down' \in BOOLEAN
  BY <1>1 DEF IInv, Typed, ChecksFit, Of
<1> QED
  BY <1>1, <1>2, <1>3, RowKeeps

LEMMA ResumeKeeps ==
    ASSUME IInv, Resume
    PROVE  IInv'
<1>1. /\ ~down /\ run.paused /\ RunOK(run) /\ RunOK(Unpaused(run)) /\ branch.merged = 0
      /\ UNCHANGED <<steps, sess, att, result, log, tests, intent, down>>
  <2>1. RunOK(run)
    BY DEF IInv, Typed
  <2> QED
    BY <2>1, PausedOK DEF Resume, IInv, MergeHolds
<1>2. \/ ~Busy /\ Recover(Unpaused(run), FALSE)
      \/ run' = Unpaused(run) /\ UNCHANGED <<pc, feature, branch, checks>>
  BY DEF Resume
<1>3. down' = FALSE
  BY <1>1 DEF IInv, Typed
<1>4. CASE ~Busy /\ Recover(Unpaused(run), FALSE)
  BY <1>1, <1>3, <1>4, RecoverKeeps
<1>5. CASE run' = Unpaused(run) /\ UNCHANGED <<pc, feature, branch, checks>>
  <2>1. RunOK(run') /\ checks' \subseteq CheckType /\ ChecksFit' /\ down' \in BOOLEAN /\ (down' => down)
    BY <1>1, <1>3, <1>5 DEF IInv, Typed, ChecksFit, Of
  <2> QED
    BY <1>1, <1>5, <2>1, RowKeeps
<1> QED
  BY <1>2, <1>4, <1>5

LEMMA ContinueKeeps ==
    ASSUME IInv, Continue
    PROVE  IInv'
<1> DEFINE row == Moved(run, "running", "none", "none")
<1>1. /\ ~Busy /\ run.status = "waiting" /\ Recover(row, TRUE) /\ RunOK(run) /\ down' = FALSE
      /\ UNCHANGED <<steps, sess, att, result, log, tests, intent>>
  BY DEF Continue, IInv, Typed
<1>2. RunOK(row)
  BY <1>1, MovedOK DEF RunStatuses, Whys
<1>3. branch.merged = 0
  BY <1>1 DEF IInv, MergeHolds
<1> HIDE DEF row
<1> QED
  BY <1>1, <1>2, <1>3, RecoverKeeps

LEMMA PushKeeps ==
    ASSUME IInv, Push
    PROVE  IInv'
<1>1. /\ branch.merged = 0 /\ branch' = [branch EXCEPT !.head = @ + 1]
      /\ UNCHANGED <<steps, run, feature, sess, att, result, log, tests, checks, intent, pc, down>>
  BY DEF Push
<1>2. /\ branch' \in BranchType /\ branch'.head = branch.head + 1 /\ branch.head \in Nat
      /\ branch'.approved = branch.approved /\ branch'.merged = 0
  BY <1>1 DEF IInv, Typed, BranchType
<1>3. tests.commit \in Nat /\ branch.approved \in Nat /\ \A x \in Roles : result[x].commit \in Nat
  BY DEF IInv, Typed, TestsType, BranchType, ResultType
<1>4. Typed' /\ PlacesFit' /\ NoReviewer'
  BY <1>1, <1>2 DEF IInv, Typed, PlacesFit, NoReviewer
<1>5. CommitsBehind'
  BY <1>1, <1>2, <1>3 DEF IInv, CommitsBehind
<1>6. TestsFit'
  <2>1. steps.tests /\ tests.status \in {"passed", "failed"} => tests.ran = tests.commit \/ tests.commit < branch'.head
    BY <1>2, <1>3 DEF IInv, TestsFit
  <2> QED
    BY <1>1, <2>1 DEF IInv, TestsFit
<1>7. ReviewStarts' /\ FeatureFits'
  BY <1>1, <1>2 DEF IInv, ReviewStarts, FeatureFits
<1>8. ReadinessHolds' /\ ApprovalHolds'
  BY <1>1, <1>2 DEF IInv, ReadinessHolds, ApprovalHolds, Approval
<1>9. RoundsCalled' /\ ImplementationsFit'
  BY <1>1 DEF IInv, RoundsCalled, RoundsFollow, Called, ImplementationsFit
<1>10. ChecksFit' /\ MergeHolds'
  BY <1>1, <1>2 DEF IInv, ChecksFit, Of, MergeHolds
<1> QED
  BY <1>4, <1>5, <1>6, <1>7, <1>8, <1>9, <1>10 DEF IInv

LEMMA CrashKeeps ==
    ASSUME IInv, Crash
    PROVE  IInv'
<1>1. /\ run.status \notin RunEnds /\ down' = TRUE /\ pc' = [r \in Roles |-> Rest]
      /\ UNCHANGED <<steps, run, feature, sess, att, result, log, tests, branch, checks, intent>>
  BY DEF Crash
<1>2. "lead" \in Roles /\ "reviewer" \in Roles
  BY DEF Roles
<1>3. \A x \in Roles : pc'[x] = Rest
  BY <1>1
<1>4. PcOK(pc') /\ \A x \in Roles : pc'[x].at = "idle"
  <2>1. \A x \in Roles : pc'[x] = [at |-> pc'[x].at, next |-> pc'[x].next] /\ pc'[x].at \in Places /\ pc'[x].at = "idle"
    BY <1>3, RestIsIdle
  <2>2. pc' = [x \in Roles |-> pc'[x]]
    BY <1>1
  <2>3. pc' = [x \in Roles |-> [at |-> pc'[x].at, next |-> pc'[x].next]]
    BY <2>1, <2>2
  <2> QED
    BY <2>1, <2>3 DEF PcOK
<1>5. pc'["lead"].at = "idle" /\ pc'["reviewer"].at = "idle" /\ branch.merged = 0
  BY <1>1, <1>2, <1>4 DEF IInv, MergeHolds, RunEnds
<1>6. Typed'
  BY <1>1, <1>4 DEF IInv, Typed
<1>7. PlacesFit' /\ CommitsBehind' /\ TestsFit' /\ NoReviewer' /\ ReviewStarts'
  BY <1>1, <1>4, <1>5 DEF IInv, PlacesFit, CommitsBehind, TestsFit, NoReviewer, ReviewStarts
<1>8. ReadinessHolds' /\ FeatureFits' /\ ApprovalHolds'
  BY <1>1, <1>4, <1>5 DEF IInv, ReadinessHolds, FeatureFits, ApprovalHolds, Approval
<1>9. RoundsCalled' /\ ImplementationsFit'
  BY <1>1, <1>5 DEF IInv, RoundsCalled, RoundsFollow, Called, ImplementationsFit
<1>10. ChecksFit' /\ MergeHolds'
  BY <1>1, <1>5 DEF IInv, ChecksFit, Of, MergeHolds
<1> QED
  BY <1>6, <1>7, <1>8, <1>9, <1>10 DEF IInv

LEMMA RestartKeeps ==
    ASSUME IInv, Restart
    PROVE  IInv'
<1>1. /\ down /\ down' = FALSE /\ RunOK(run) /\ ~Busy
      /\ UNCHANGED <<steps, sess, att, result, log, tests, intent>>
  BY DEF Restart, IInv, Typed, PlacesFit, Busy
<1>2. CASE ~Lost
  BY <1>1, <1>2, NothingKeeps DEF Restart
<1>3. CASE Lost
  <2>1. branch.merged = 0
    BY <1>3 DEF Lost, Resting, IInv, MergeHolds, FeatureFits
  <2>2. \/ RunOK(run') /\ UNCHANGED <<pc, feature, branch, checks>>
        \/ Recover(run, FALSE)
    <3>1. RunOK(Moved(run, "waiting", "blocker", "refused"))
      BY <1>1, MovedOK DEF RunStatuses, WaitKinds, Whys
    <3>2. waitRun("phase_checkpoint", "boundary") => RunOK(run')
      BY <1>1, WaitsMade
    <3> QED
      BY <1>1, <1>3, <3>1, <3>2 DEF Restart
  <2>3. CASE RunOK(run') /\ UNCHANGED <<pc, feature, branch, checks>>
    <3>1. checks' \subseteq CheckType /\ ChecksFit' /\ down' \in BOOLEAN /\ (down' => down)
      BY <1>1, <2>3 DEF IInv, Typed, ChecksFit, Of
    <3> QED
      BY <1>1, <2>1, <2>3, <3>1, RowKeeps
  <2>4. CASE Recover(run, FALSE)
    BY <1>1, <2>1, <2>4, RecoverKeeps
  <2> QED
    BY <2>2, <2>3, <2>4
<1> QED
  BY <1>2, <1>3

-----------------------------------------------------------------------------
(* The theorems.                                                           *)

LEMMA InitHolds == Init => IInv
<1> SUFFICES ASSUME Init PROVE IInv
  OBVIOUS
<1>1. "lead" \in Roles /\ "reviewer" \in Roles /\ \A x \in Roles : x = "lead" \/ x = "reviewer"
  BY DEF Roles
<1>2. /\ steps \in [review : BOOLEAN, tests : BOOLEAN, preview : BOOLEAN] /\ (steps.tests => steps.review)
      /\ run = [status |-> "running", kind |-> "none", paused |-> FALSE, from |-> "none", why |-> "none"]
      /\ feature = "implementing" /\ result = [r \in Roles |-> NoResult] /\ log = {}
      /\ tests = [commit |-> 0, status |-> "none", ran |-> 0]
      /\ branch = [head |-> 0, approved |-> 0, merged |-> 0] /\ checks = {} /\ intent = FALSE /\ down = FALSE
      /\ pc = [r \in Roles |-> IF sess[r] = "running" THEN [Rest EXCEPT !.at = "turn"] ELSE Rest]
  BY DEF Init
<1>3. /\ att = [x \in Roles |-> att[x]] /\ att["lead"] = Attempt("implementation", 1)
      /\ att["reviewer"] = IF steps.tests THEN Attempt("acceptance", 1) ELSE NoTurn
      /\ sess = [x \in Roles |-> sess[x]] /\ sess["lead"] = "running"
      /\ sess["reviewer"] = IF steps.tests THEN "running" ELSE "waiting"
  BY DEF Init, Roles
<1>4. \A x \in Roles : /\ sess[x] = "running" => pc[x].at = "turn"
                       /\ sess[x] # "running" => pc[x].at = "idle"
  BY <1>2 DEF Rest
<1>5. PcOK(pc)
  <2> DEFINE p == [Rest EXCEPT !.at = "turn"]
  <2>1. p = [at |-> p.at, next |-> p.next] /\ p.at \in Places
    BY DEF Rest, Places
  <2>2. \A x \in Roles : pc[x] = p \/ pc[x] = Rest
    BY <1>2
  <2> HIDE DEF p
  <2>3. \A x \in Roles : pc[x] = [at |-> pc[x].at, next |-> pc[x].next] /\ pc[x].at \in Places
    BY <2>1, <2>2, RestIsIdle
  <2>4. pc = [x \in Roles |-> pc[x]]
    BY <1>2
  <2> QED
    BY <2>3, <2>4 DEF PcOK
<1>6. /\ AttemptOK(att["lead"]) /\ att["lead"].kind = "implementation" /\ AttemptOK(att["reviewer"])
      /\ att["reviewer"].kind = IF steps.tests THEN "acceptance" ELSE "planning"
  BY <1>3 DEF AttemptOK, Attempt, NoTurn, Kinds
<1>7. RunOK(run) /\ result \in [Roles -> ResultType] /\ tests \in TestsType /\ branch \in BranchType
  BY <1>2 DEF RunOK, RunType, RunStatuses, Whys, ResultType, NoResult, Facts, TestsType, Statuses, BranchType
<1>8. Typed
  <2>1. sess \in [Roles -> {"running", "waiting"}]
    BY <1>1, <1>3
  <2> QED
    BY <1>1, <1>2, <1>3, <1>5, <1>6, <1>7, <2>1 DEF Typed, LeadKinds, ReviewerKinds
<1>9. PlacesFit
  BY <1>1, <1>2, <1>3, <1>4, <1>6 DEF PlacesFit
<1>10. CommitsBehind /\ TestsFit
  BY <1>1, <1>2, <1>3, <1>6 DEF CommitsBehind, TestsFit, NoResult
<1>11. NoReviewer /\ ReviewStarts /\ ReadinessHolds
  BY <1>1, <1>2, <1>3, <1>4, <1>6 DEF NoReviewer, ReviewStarts, ReadinessHolds
<1>12. FeatureFits /\ ApprovalHolds
  BY <1>1, <1>2, <1>3, <1>4, <1>6 DEF FeatureFits, ApprovalHolds
<1>13. RoundsCalled /\ ImplementationsFit
  BY <1>1, <1>2, <1>3, <1>4, <1>6 DEF RoundsCalled, RoundsFollow, ImplementationsFit
<1>14. ChecksFit /\ MergeHolds
  BY <1>2 DEF ChecksFit, MergeHolds
<1> QED
  BY <1>8, <1>9, <1>10, <1>11, <1>12, <1>13, <1>14 DEF IInv

LEMMA StepKeeps == IInv /\ [Next]_vars => IInv'
<1> SUFFICES ASSUME IInv, [Next]_vars PROVE IInv'
  OBVIOUS
<1>1. ASSUME NEW r \in Roles, TurnEnds(r) PROVE IInv'
  BY <1>1, EndTurnKeeps DEF TurnEnds
<1>2. ASSUME NEW r \in Roles, Admit(r) PROVE IInv'
  BY <1>2, AdmitKeeps
<1>3. ASSUME NEW r \in Roles, Verify(r) PROVE IInv'
  BY <1>3, VerifyKeeps
<1>4. ASSUME NEW r \in Roles, Join(r) PROVE IInv'
  BY <1>4, JoinKeeps
<1>5. ASSUME NEW r \in Roles, Refuse(r) PROVE IInv'
  BY <1>5, RefusalKeeps DEF Refuse
<1>6. ASSUME NEW k \in checks, NEW s \in {"passed", "failed"}, CompleteCheck(k, s) PROVE IInv'
  BY <1>6, CompleteCheckKeeps
<1>7. ASSUME NEW k \in checks, BlockOverdueCheck(k) PROVE IInv'
  BY <1>7, BlockOverdueCheckKeeps
<1>8. ASSUME NEW k \in told, PreviewCheckCompleted(k) PROVE IInv'
  BY <1>8, PreviewCheckCompletedKeeps
<1>9. CASE StartBaseUpdate \/ Merge
  BY <1>9, StartBaseUpdateKeeps, MergeKeeps
<1>10. CASE Pause \/ Resume \/ Continue \/ Push \/ Crash \/ Restart
  BY <1>10, PauseKeeps, ResumeKeeps, ContinueKeeps, PushKeeps, CrashKeeps, RestartKeeps
<1>11. CASE UNCHANGED vars
  BY <1>11, NothingKeeps DEF vars
<1> QED
  BY <1>1, <1>2, <1>3, <1>4, <1>5, <1>6, <1>7, <1>8, <1>9, <1>10, <1>11 DEF Next

THEOREM InvariantHolds == Spec => []IInv
  BY InitHolds, StepKeeps, PTL DEF Spec

\* What is ready to merge was approved by a review whose acceptance results
\* are of that very commit and passed, and acknowledged by the lead; without
\* a review it is a verified publication (EnterMergeGate, ClearMergeReady).
THEOREM WhatIsApprovedWasReviewed == Spec => []ApprovedWasReviewed
<1>1. IInv => ApprovedWasReviewed
  <2> SUFFICES ASSUME IInv, branch.approved # 0
               PROVE  IF steps.review
                      THEN /\ \E v \in log : /\ v = Verified("review", v.n, branch.approved, "approved")
                                             /\ Verified("readiness", v.n, branch.approved, "ready") \in log
                           /\ steps.tests => tests = [commit |-> branch.approved, status |-> "passed", ran |-> branch.approved]
                      ELSE \E v \in log : v.kind \in {"implementation", "update"} /\ v.commit = branch.approved
    BY DEF ApprovedWasReviewed
  <2>1. CASE ~steps.review
    BY <2>1 DEF IInv, ApprovalHolds
  <2>2. CASE steps.review
    <3> DEFINE v == Verified("review", att["reviewer"].n, branch.approved, "approved")
    <3>1. /\ v \in log /\ Verified("readiness", att["reviewer"].n, branch.approved, "ready") \in log
          /\ steps.tests => tests = [commit |-> branch.approved, status |-> "passed", ran |-> branch.approved]
      BY <2>2 DEF IInv, ApprovalHolds, Approval
    <3>2. v.n = att["reviewer"].n
      BY DEF Verified
    <3> HIDE DEF v
    <3>3. v = Verified("review", v.n, branch.approved, "approved")
      BY <3>2 DEF v
    <3> QED
      BY <2>2, <3>1, <3>2, <3>3
  <2> QED
    BY <2>1, <2>2
<1> QED
  BY <1>1, InvariantHolds, PTL

\* What is merged is what was approved, and the desktop app saw it pass
\* (Merge, and the checks that change afterwards).
THEOREM WhatIsMergedWasApproved == Spec => []MergedIsApproved
<1>1. IInv => MergedIsApproved
  BY DEF IInv, MergeHolds, MergedIsApproved
<1> QED
  BY <1>1, InvariantHolds, PTL

\* The lead answered every earlier review round, or main was taken in
\* (startImplementationReview, startImplementationCorrection).
THEOREM RoundsFollowEachOther == Spec => []RoundsFollow
<1>1. IInv => RoundsFollow
  BY DEF IInv, RoundsCalled
<1> QED
  BY <1>1, InvariantHolds, PTL

-----------------------------------------------------------------------------
(* A running run has somebody at work on it: who may be at work beside whom. *)

Answers(a) == a.kind \in {"correction", "readiness"}
Accepting == /\ att["reviewer"].kind = "acceptance"
             /\ sess["reviewer"] = "running" \/ pc["reviewer"].at \in {"turn", "verify", "join"}
Reviewing == /\ att["reviewer"].kind = "review"
             /\ sess["reviewer"] = "running" \/ pc["reviewer"].at \in {"turn", "verify"}

\* A turn of a running run is followed by its goroutine.
WorkersOwned == run.status = "running" /\ ~down => \A r \in Roles : sess[r] = "running" => pc[r].at = "turn"

\* The acceptance tests are written before anything else follows; who waits for the other
\* at the join has done its part.
AcceptanceFits ==
    /\ Accepting => feature = "implementing" /\ pc["lead"].at # "admit"
    /\ pc["reviewer"].at = "join" => att["reviewer"].kind = "acceptance"
    /\ pc["lead"].at = "join" => \E v \in log : v.kind = "implementation" /\ v.n = att["lead"].n

\* A review is of a later round than the lead's last answer, and the lead rests meanwhile.
AnswersFollow ==
    /\ Reviewing => /\ sess["lead"] = "waiting" /\ pc["lead"].at \in {"idle", "join"}
                    /\ Answers(att["lead"]) => att["lead"].n < att["reviewer"].n
    /\ pc["reviewer"].at = "admit" /\ Answers(att["lead"]) => att["lead"].n < pc["reviewer"].next.n

\* The lead implements before the first review only.
FirstTurns ==
    /\ att["lead"].kind = "implementation" /\ (sess["lead"] = "running" \/ pc["lead"].at \in {"turn", "verify"})
         => att["reviewer"].kind # "review"
    /\ pc["lead"].at = "admit" /\ pc["lead"].next.kind = "implementation" => att["reviewer"].kind # "review"

Owned == WorkersOwned /\ AcceptanceFits /\ AnswersFollow /\ FirstTurns /\ RunningIsOwned

LEMMA RolesAre == "lead" \in Roles /\ "reviewer" \in Roles /\ \A x \in Roles : x = "lead" \/ x = "reviewer"
  BY DEF Roles

LEMMA StopsRunning ==
    ASSUME NEW row, RunOK(row), NEW kind \in WaitKinds, NEW why \in Whys, Waits(row, kind, why)
    PROVE  run'.status # "running" /\ (run'.status \in RunEnds => row.status \in RunEnds)
<1>1. "waiting" \in RunStatuses /\ kind \in WaitKinds \cup {"none"} /\ "running" \notin RunEnds /\ "waiting" \notin RunEnds
  BY DEF RunStatuses, RunEnds
<1>2. Moved(row, "waiting", kind, why).status = "waiting"
  BY <1>1, MovedOK
<1> QED
  BY <1>1, <1>2 DEF Waits

LEMMA GateStops ==
    ASSUME NEW row, RunOK(row), NEW c, AtTheGate(row, c)
    PROVE  run'.status # "running"
<1>1. {"blocker", "merge_gate"} \subseteq WaitKinds /\ {"preview_failed", "preview", "ready"} \subseteq Whys
  BY DEF WaitKinds, Whys
<1> QED
  BY <1>1, StopsRunning DEF AtTheGate

\* The waits of the handlers, and what they say.
Blocks == \E kind \in WaitKinds, why \in Whys \ {"ready"} : waitRun(kind, why)

LEMMA HandlersWait ==
    /\ \A r : RequireReview(r) => Done(r) /\ Blocks
    /\ \A r : StopAtPauseBoundary(r) => Done(r) /\ Blocks
    /\ waitRun("round_cap", "rounds") => Blocks
    /\ waitRun("phase_checkpoint", "boundary") => Blocks
    /\ waitRun("blocker", "no_desktop") => Blocks
<1>1. {"blocker", "phase_checkpoint", "round_cap"} \subseteq WaitKinds
  BY DEF WaitKinds
<1>2. {"refused", "boundary", "rounds", "no_desktop"} \subseteq Whys \ {"ready"}
  BY DEF Whys
<1>3. \A kind \in WaitKinds, why \in Whys \ {"ready"} : waitRun(kind, why) => Blocks
  BY DEF Blocks
<1> QED
  BY <1>1, <1>2, <1>3 DEF RequireReview, StopAtPauseBoundary

LEMMA BlocksStops == ASSUME RunOK(run), Blocks PROVE run'.status # "running"
  BY StopsRunning DEF Blocks, waitRun

-----------------------------------------------------------------------------
LEMMA EndsKeepOwners ==
    ASSUME IInv, Owned, NEW r \in Roles, pc[r].at \in {"verify", "join", "admit"}, Done(r),
           UNCHANGED <<steps, sess, att, down>>, log \subseteq log',
           feature' \in {feature, "ready_to_merge"}, Accepting => feature' = feature,
           run'.status # "running" \/ (run'.status = run.status /\ RunningIsOwned')
    PROVE  Owned'
<1>1. pc'[r].at = "idle" /\ \A x \in Roles : x # r => pc'[x] = pc[x]
  <2>1. PcOK(pc) /\ pc' = Placed(r, Rest)
    BY DEF IInv, Typed, Done, Placed
  <2> QED
    BY <2>1, PcMoves, RestIsIdle
<1>2. \A x \in Roles : pc'[x].at # "idle" => pc'[x] = pc[x]
  BY <1>1
<1>3. sess[r] = "running" => pc[r].at # "verify" /\ pc[r].at # "join"
  BY DEF IInv, PlacesFit
<1>4. WorkersOwned'
  BY <1>1 DEF Owned, WorkersOwned
<1>5. AcceptanceFits'
  BY <1>1, <1>2, RolesAre DEF Owned, AcceptanceFits, Accepting
<1>6. AnswersFollow'
  BY <1>1, <1>2, RolesAre DEF Owned, AnswersFollow, Reviewing
<1>7. FirstTurns'
  BY <1>1, <1>2, RolesAre DEF Owned, FirstTurns
<1>8. RunningIsOwned'
  BY DEF RunningIsOwned
<1> QED
  BY <1>4, <1>5, <1>6, <1>7, <1>8 DEF Owned

LEMMA ReviewKeepsOwners ==
    ASSUME IInv, Owned, NEW r \in Roles, pc[r].at \in {"verify", "join"}, NEW n,
           Next1(r, "reviewer", Attempt("review", n)), sess["reviewer"] = "waiting",
           Answers(att["lead"]) => att["lead"].n < n,
           UNCHANGED <<steps, sess, att, down>>, log \subseteq log'
    PROVE  Owned'
<1> DEFINE a == Attempt("review", n)
<1>1. /\ pc'["reviewer"] = [at |-> "admit", next |-> a] /\ pc'["lead"] = IF r = "lead" THEN Rest ELSE pc["lead"]
  <2>1. PcOK(pc) /\ pc' = Started(r, "reviewer", a)
    BY DEF IInv, Typed, Next1, Started
  <2> HIDE DEF a
  <2> QED
    BY <2>1, RolesAre, PcStarts
<1>2. a.kind = "review" /\ a.n = n /\ run' = run /\ sess[r] = "waiting"
  BY DEF Attempt, Next1, IInv, PlacesFit
<1> HIDE DEF a
<1>3. pc'["reviewer"].at = "admit" /\ pc'["reviewer"].next = a /\ (pc'["lead"].at = "idle" \/ pc'["lead"] = pc["lead"])
      /\ (r = "lead" => pc'["lead"].at = "idle") /\ (r = "reviewer" => pc'["lead"] = pc["lead"])
  BY <1>1, RestIsIdle
<1>4. WorkersOwned'
  BY <1>2, <1>3, RolesAre DEF Owned, WorkersOwned
<1>5. AcceptanceFits'
  BY <1>3 DEF Owned, AcceptanceFits, Accepting
<1>6. AnswersFollow'
  BY <1>2, <1>3 DEF AnswersFollow, Reviewing
<1>7. FirstTurns'
  BY <1>3 DEF Owned, FirstTurns
<1>8. RunningIsOwned'
  BY <1>3, RolesAre DEF RunningIsOwned, Busy
<1> QED
  BY <1>4, <1>5, <1>6, <1>7, <1>8 DEF Owned

LEMMA AnswerKeepsOwners ==
    ASSUME IInv, Owned, pc["reviewer"].at = "verify", att["reviewer"].kind = "review",
           NEW kind \in {"readiness", "correction"}, NEW n, Next1("reviewer", "lead", Attempt(kind, n)),
           UNCHANGED <<steps, sess, att, down, feature>>, log \subseteq log'
    PROVE  Owned'
<1> DEFINE a == Attempt(kind, n)
<1>1. pc'["lead"] = [at |-> "admit", next |-> a] /\ pc'["reviewer"] = Rest
  <2>1. PcOK(pc) /\ pc' = Started("reviewer", "lead", a)
    BY DEF IInv, Typed, Next1, Started
  <2> HIDE DEF a
  <2> QED
    BY <2>1, RolesAre, PcStarts
<1>2. a.kind = kind /\ run' = run /\ sess["reviewer"] = "waiting"
  BY RolesAre DEF Attempt, Next1, IInv, PlacesFit
<1> HIDE DEF a
<1>3. pc'["reviewer"].at = "idle" /\ pc'["lead"].at = "admit" /\ pc'["lead"].next = a
  BY <1>1, RestIsIdle
<1>4. sess["lead"] = "waiting"
  BY DEF Owned, AnswersFollow, Reviewing
<1>5. WorkersOwned'
  BY <1>2, <1>3, <1>4, RolesAre DEF WorkersOwned
<1>6. AcceptanceFits'
  BY <1>3 DEF AcceptanceFits, Accepting
<1>7. AnswersFollow'
  BY <1>2, <1>3 DEF AnswersFollow, Reviewing
<1>8. FirstTurns'
  BY <1>2, <1>3, <1>4 DEF FirstTurns
<1>9. RunningIsOwned'
  BY <1>3, RolesAre DEF RunningIsOwned, Busy
<1> QED
  BY <1>5, <1>6, <1>7, <1>8, <1>9 DEF Owned

LEMMA JoiningKeepsOwners ==
    ASSUME IInv, Owned, NEW r \in Roles, pc[r].at = "verify", pc' = [pc EXCEPT ![r].at = "join"],
           r = "lead" => \E v \in log' : v.kind = "implementation" /\ v.n = att["lead"].n,
           r = "reviewer" => att["reviewer"].kind = "acceptance",
           UNCHANGED <<steps, run, sess, att, down, feature>>, log \subseteq log'
    PROVE  Owned'
<1>1. pc'[r].at = "join" /\ (\A x \in Roles : x # r => pc'[x] = pc[x]) /\ sess[r] = "waiting"
  BY DEF IInv, Typed, PcOK, PlacesFit
<1>2. WorkersOwned'
  BY <1>1 DEF Owned, WorkersOwned
<1>3. AcceptanceFits'
  BY <1>1, RolesAre DEF Owned, AcceptanceFits, Accepting
<1>4. AnswersFollow'
  BY <1>1, RolesAre DEF Owned, AnswersFollow, Reviewing
<1>5. FirstTurns'
  BY <1>1, RolesAre DEF Owned, FirstTurns
<1>6. RunningIsOwned'
  BY <1>1 DEF RunningIsOwned, Busy
<1> QED
  BY <1>2, <1>3, <1>4, <1>5, <1>6 DEF Owned

\* Which handler a turn's end runs.
LEMMA VerifyIs ==
    ASSUME IInv, NEW r \in Roles, Verify(r)
    PROVE  /\ pc[r].at = "verify" /\ ~down /\ sess[r] = "waiting"
           /\ UNCHANGED <<steps, sess, att, result, told, intent, down, joinMu, bounds>>
           /\ \/ r = "lead" /\ Is("lead", "implementation") /\ VerifyImplementation
              \/ /\ r = "reviewer" /\ Is("reviewer", "acceptance") /\ pc' = [pc EXCEPT !["reviewer"].at = "join"]
                 /\ UNCHANGED <<run, feature, tests, branch, checks, log>>
              \/ /\ r = "reviewer" /\ Is("reviewer", "review") /\ VerifyReview
                 /\ UNCHANGED <<feature, tests, branch, checks>>
              \/ r = "lead" /\ Is("lead", "correction") /\ VerifyCorrection /\ UNCHANGED <<branch, checks>>
              \/ r = "lead" /\ Is("lead", "readiness") /\ VerifyReadiness
              \/ r = "lead" /\ Is("lead", "update") /\ VerifyBaseUpdate
<1>1. pc[r].at = "verify" /\ ~down /\ UNCHANGED <<steps, sess, att, result, told, intent, down, bounds>>
  BY DEF Verify
<1>2. sess[r] = "waiting" /\ (r = "lead" \/ r = "reviewer")
  BY <1>1 DEF IInv, PlacesFit, Roles
<1>3. /\ r = "lead" => att[r].kind \in LeadKinds
      /\ r = "reviewer" => att[r].kind \in {"review", "acceptance"}
  BY <1>1 DEF IInv, Typed, ReviewerKinds, PlacesFit
<1>4. CASE att[r].kind = "implementation"
  <2>1. Is(r, "implementation") /\ ~Is(r, "acceptance") /\ ~Is(r, "review") /\ ~Is(r, "correction") /\ ~Is(r, "readiness")
    BY <1>4 DEF Is
  <2>2. VerifyImplementation
    BY <2>1 DEF Verify
  <2>3. UNCHANGED joinMu
    BY <2>2 DEF VerifyImplementation
  <2> QED
    BY <1>1, <1>2, <1>3, <1>4, <2>1, <2>2, <2>3
<1>5. CASE att[r].kind = "acceptance"
  <2>1. ~Is(r, "implementation") /\ Is(r, "acceptance") /\ ~Is(r, "review") /\ ~Is(r, "correction") /\ ~Is(r, "readiness")
    BY <1>5 DEF Is
  <2>2. pc' = [pc EXCEPT ![r].at = "join"] /\ UNCHANGED <<run, feature, tests, branch, checks, log, joinMu>>
    BY <2>1 DEF Verify
  <2> QED
    BY <1>1, <1>2, <1>3, <1>5, <2>1, <2>2 DEF LeadKinds
<1>6. CASE att[r].kind = "review"
  <2>1. ~Is(r, "implementation") /\ ~Is(r, "acceptance") /\ Is(r, "review") /\ ~Is(r, "correction") /\ ~Is(r, "readiness")
    BY <1>6 DEF Is
  <2>2. VerifyReview /\ UNCHANGED <<feature, tests, branch, checks, joinMu>>
    BY <2>1 DEF Verify
  <2> QED
    BY <1>1, <1>2, <1>3, <1>6, <2>1, <2>2 DEF LeadKinds
<1>7. CASE att[r].kind = "correction"
  <2>1. ~Is(r, "implementation") /\ ~Is(r, "acceptance") /\ ~Is(r, "review") /\ Is(r, "correction") /\ ~Is(r, "readiness")
    BY <1>7 DEF Is
  <2>2. VerifyCorrection /\ UNCHANGED <<branch, checks, joinMu>>
    BY <2>1 DEF Verify
  <2> QED
    BY <1>1, <1>2, <1>3, <1>7, <2>1, <2>2
<1>8. CASE att[r].kind = "readiness"
  <2>1. ~Is(r, "implementation") /\ ~Is(r, "acceptance") /\ ~Is(r, "review") /\ ~Is(r, "correction") /\ Is(r, "readiness")
    BY <1>8 DEF Is
  <2>2. VerifyReadiness /\ UNCHANGED joinMu
    BY <2>1 DEF Verify
  <2> QED
    BY <1>1, <1>2, <1>3, <1>8, <2>1, <2>2
<1>9. CASE att[r].kind = "update"
  <2>1. /\ ~Is(r, "implementation") /\ ~Is(r, "acceptance") /\ ~Is(r, "review") /\ ~Is(r, "correction")
        /\ ~Is(r, "readiness") /\ Is(r, "update")
    BY <1>9 DEF Is
  <2>2. VerifyBaseUpdate /\ UNCHANGED joinMu
    BY <2>1 DEF Verify
  <2> QED
    BY <1>1, <1>2, <1>3, <1>9, <2>1, <2>2
<1> QED
  BY <1>2, <1>3, <1>4, <1>5, <1>6, <1>7, <1>8, <1>9 DEF LeadKinds

\* What becomes of a turn whose end is verified.
Starts(r, to) ==
    \/ /\ r = "lead" /\ to = "reviewer" /\ sess["reviewer"] = "waiting" /\ feature' = "reviewing"
       /\ \E n : Next1("lead", "reviewer", Attempt("review", n)) /\ (Answers(att["lead"]) => att["lead"].n < n)
    \/ /\ r = "reviewer" /\ to = "lead" /\ att["reviewer"].kind = "review" /\ UNCHANGED feature
       /\ \E kind \in {"readiness", "correction"} : \E n : Next1("reviewer", "lead", Attempt(kind, n))
Joins(r) ==
    /\ pc' = [pc EXCEPT ![r].at = "join"] /\ UNCHANGED <<run, feature>>
    /\ r = "lead" => \E v \in log' : v.kind = "implementation" /\ v.n = att["lead"].n
    /\ r = "reviewer" => att["reviewer"].kind = "acceptance"
Outcome(r) ==
    \/ UNCHANGED checks /\ Done(r) /\ Blocks /\ UNCHANGED feature
    \/ UNCHANGED checks /\ \E to \in Roles : Starts(r, to)
    \/ UNCHANGED checks /\ Joins(r)
    \/ r = "lead" /\ EnterMergeGate("lead", branch.head) /\ ~Accepting

LEMMA StartReviewIs ==
    ASSUME IInv, NEW n, NEW c, StartReview("lead", n, c), ~AlreadyReviewed(n),
           feature \in {"implementing", "reviewing"}, UNCHANGED checks,
           Answers(att["lead"]) => att["lead"].n < n
    PROVE  Outcome("lead")
<1>1. CASE ~MayReview(n)
  BY <1>1, HandlersWait DEF StartReview, Outcome
<1>2. CASE MayReview(n)
  <2>1. /\ Next1("lead", "reviewer", Attempt("review", n)) /\ feature' = "reviewing"
        /\ sess["reviewer"] = "waiting"
    BY <1>2 DEF StartReview, MayReview
  <2> QED
    BY <2>1, RolesAre DEF Outcome, Starts
<1> QED
  BY <1>1, <1>2

NewOf(r) == log \subseteq log' /\ \A v \in log' : v \in log \/ v.n = att[r].n

LEMMA AddsEvent ==
    ASSUME NEW r, NEW kind, NEW c, NEW says, log' = log \cup {Verified(kind, att[r].n, c, says)}
    PROVE  NewOf(r) /\ \E v \in log' : v.kind = kind /\ v.n = att[r].n
<1> DEFINE w == Verified(kind, att[r].n, c, says)
<1>1. w.kind = kind /\ w.n = att[r].n /\ log' = log \cup {w}
  BY DEF Verified
<1> HIDE DEF w
<1> QED
  BY <1>1 DEF NewOf

LEMMA VerifyOutcomes ==
    ASSUME IInv, AnswersFollow, FirstTurns, NEW r \in Roles, Verify(r)
    PROVE  Outcome(r) /\ NewOf(r)
<1>1. /\ pc[r].at = "verify" /\ ~down /\ sess[r] = "waiting"
      /\ UNCHANGED <<steps, sess, att, result, told, intent, down, bounds>>
  BY VerifyIs
<1>2. /\ feature \in {"implementing", "reviewing"} /\ RunOK(run)
      /\ \A x \in Roles : Is(x, "update") \/ att[x].n \in Nat \ {0}
      /\ att["reviewer"].n \in Nat \ {0} /\ att["lead"].kind \in LeadKinds
  <2>1. att["reviewer"].kind # "update"
    BY DEF IInv, Typed, ReviewerKinds
  <2> QED
    BY <1>1, <2>1, RolesAre DEF IInv, Typed, FeatureFits, AttemptOK, Is
<1>3. ASSUME RequireReview(r), UNCHANGED <<log, feature, checks>> PROVE Outcome(r) /\ NewOf(r)
  BY <1>3, HandlersWait DEF Outcome, NewOf
<1>4. CASE r = "lead" /\ Is("lead", "implementation") /\ VerifyImplementation
  <2> DEFINE c == result["lead"].commit
  <2>1. CASE result["lead"].says = "nothing" \/ c # branch.head
    BY <1>3, <1>4, <2>1 DEF VerifyImplementation, Tip
  <2>2. CASE ~(result["lead"].says = "nothing" \/ c # branch.head)
    <3>1. /\ log' = log \cup {Verified("implementation", att["lead"].n, c, "published")} /\ c = branch.head
          /\ \/ ~steps.review /\ EnterMergeGate("lead", c)
             \/ /\ steps.review /\ steps.tests /\ pc' = [pc EXCEPT !["lead"].at = "join"]
                /\ UNCHANGED <<run, feature, checks>>
             \/ /\ steps.review /\ ~steps.tests /\ StopAtPauseBoundary("lead") /\ UNCHANGED <<feature, checks>>
             \/ /\ steps.review /\ ~steps.tests /\ StartReview("lead", 1, c) /\ UNCHANGED checks
      BY <1>4, <2>2 DEF VerifyImplementation, Tip
    <3>2. NewOf("lead") /\ \E v \in log' : v.kind = "implementation" /\ v.n = att["lead"].n
      BY <3>1, AddsEvent
    <3>3. ~AlreadyReviewed(1) /\ ~Answers(att["lead"])
      BY <1>1, <1>4 DEF FirstTurns, AlreadyReviewed, Is, Answers
    <3>4. ~steps.review => ~Accepting
      BY DEF IInv, NoReviewer, Accepting
    <3> HIDE DEF c
    <3>5. CASE ~steps.review /\ EnterMergeGate("lead", c)
      BY <1>4, <3>1, <3>2, <3>4, <3>5 DEF Outcome
    <3>6. CASE pc' = [pc EXCEPT !["lead"].at = "join"] /\ UNCHANGED <<run, feature, checks>>
      BY <1>4, <3>2, <3>6 DEF Outcome, Joins
    <3>7. CASE StopAtPauseBoundary("lead") /\ UNCHANGED <<feature, checks>>
      BY <1>4, <3>2, <3>7, HandlersWait DEF Outcome
    <3>8. CASE StartReview("lead", 1, c) /\ UNCHANGED checks
      BY <1>2, <1>4, <3>2, <3>3, <3>8, StartReviewIs
    <3> QED
      BY <3>1, <3>5, <3>6, <3>7, <3>8
  <2> QED
    BY <1>2, <2>1, <2>2
<1>5. CASE r = "reviewer" /\ Is("reviewer", "acceptance") /\ pc' = [pc EXCEPT !["reviewer"].at = "join"]
           /\ UNCHANGED <<run, feature, tests, branch, checks, log>>
  BY <1>5 DEF Outcome, Joins, NewOf, Is
<1>6. CASE r = "reviewer" /\ Is("reviewer", "review") /\ VerifyReview /\ UNCHANGED <<feature, tests, branch, checks>>
  <2> DEFINE res == result["reviewer"]
             n == att["reviewer"].n
             kind == IF res.says = "approved" THEN "readiness" ELSE "correction"
  <2>1. CASE ReviewRefused(res)
    BY <1>3, <1>6, <2>1 DEF VerifyReview
  <2>2. CASE ~ReviewRefused(res)
    <3>1. /\ log' = log \cup {Verified("review", n, res.commit, res.says)}
          /\ StopAtPauseBoundary("reviewer") \/ StartAnswer(n, kind)
      BY <1>6, <2>2 DEF VerifyReview
    <3>2. NewOf("reviewer") /\ kind \in {"readiness", "correction"}
      BY <3>1, AddsEvent
    <3>3. ~(AnsweredBefore(n) >= n)
      <4>1. /\ att["lead"].kind \in {"correction", "readiness"} => att["lead"].n < n /\ att["lead"].n \in Nat
            /\ n \in Nat \ {0}
        BY <1>1, <1>2, <1>6, RolesAre DEF AnswersFollow, Reviewing, Answers, Is
      <4>2. AnsweredBefore(n) = IF att["lead"].kind \in {"correction", "readiness"} THEN att["lead"].n
                                ELSE IF att["lead"].kind = "update" THEN n - 1 ELSE 0
        BY DEF AnsweredBefore, Is
      <4> HIDE DEF n
      <4> QED
        BY <4>1, <4>2
    <3> HIDE DEF kind, n
    <3>4. CASE StopAtPauseBoundary("reviewer")
      BY <1>6, <3>2, <3>4, HandlersWait DEF Outcome
    <3>5. CASE StartAnswer(n, kind)
      <4>1. Next1("reviewer", "lead", Attempt(kind, n)) \/ RequireReview("reviewer")
        BY <3>3, <3>5 DEF StartAnswer
      <4>2. CASE RequireReview("reviewer")
        BY <1>6, <3>2, <4>2, HandlersWait DEF Outcome
      <4>3. CASE Next1("reviewer", "lead", Attempt(kind, n))
        <5>1. Starts("reviewer", "lead")
          BY <1>6, <3>2, <4>3 DEF Starts, Is
        <5> QED
          BY <1>6, <3>2, <5>1, RolesAre DEF Outcome
      <4> QED
        BY <4>1, <4>2, <4>3
    <3> QED
      BY <3>1, <3>4, <3>5
  <2> QED
    BY <1>2, <2>1, <2>2
<1>7. CASE r = "lead" /\ Is("lead", "correction") /\ VerifyCorrection /\ UNCHANGED <<branch, checks>>
  <2> DEFINE n == att["lead"].n
             c == result["lead"].commit
             follows == /\ Is("reviewer", "review") /\ att["reviewer"].n = n
                        /\ result["reviewer"].says = "changes" /\ c = branch.head
  <2>1. CASE ~follows
    BY <1>3, <1>7, <2>1 DEF VerifyCorrection, Tip
  <2>2. CASE follows
    <3>1. /\ log' = log \cup {Verified("correction", n, c, "published")}
          /\ \/ waitRun("round_cap", "rounds") /\ Done("lead") /\ UNCHANGED feature
             \/ StopAtPauseBoundary("lead") /\ UNCHANGED feature
             \/ StartReview("lead", n + 1, c)
      BY <1>7, <2>2 DEF VerifyCorrection, Tip
    <3>2. NewOf("lead")
      BY <3>1, AddsEvent
    <3>3. n \in Nat /\ att["reviewer"].n = n
      BY <1>2, <1>7, <2>2, RolesAre DEF Is
    <3>4. ~AlreadyReviewed(n + 1) /\ n < n + 1
      BY <3>3 DEF AlreadyReviewed
    <3> HIDE DEF c, follows
    <3>5. CASE StartReview("lead", n + 1, c)
      BY <1>2, <1>7, <3>2, <3>4, <3>5, StartReviewIs
    <3>6. CASE ~StartReview("lead", n + 1, c)
      BY <1>7, <3>1, <3>2, <3>6, HandlersWait DEF Outcome
    <3> QED
      BY <3>5, <3>6
  <2> QED
    BY <1>2, <2>1, <2>2
<1>8. CASE r = "lead" /\ Is("lead", "readiness") /\ VerifyReadiness
  <2> DEFINE n == att["lead"].n
             c == result["reviewer"].commit
             says == result["lead"].says
  <2>1. CASE ~Acknowledges \/ c # branch.head
    BY <1>3, <1>8, <2>1 DEF VerifyReadiness, Tip
  <2>2. CASE Acknowledges /\ c = branch.head
    <3>1. /\ log' = log \cup {Verified("readiness", n, c, says)}
          /\ \/ EnterMergeGate("lead", c)
             \/ waitRun("round_cap", "rounds") /\ Done("lead") /\ UNCHANGED <<feature, checks>>
             \/ StopAtPauseBoundary("lead") /\ UNCHANGED <<feature, checks>>
             \/ StartReview("lead", n + 1, c) /\ UNCHANGED checks
      BY <1>8, <2>2 DEF VerifyReadiness, Tip
    <3>2. NewOf("lead")
      BY <3>1, AddsEvent
    <3>3. n \in Nat /\ att["reviewer"].n = n /\ att["reviewer"].kind = "review"
      BY <1>2, <1>8, <2>2, RolesAre DEF Is, Acknowledges
    <3>4. ~AlreadyReviewed(n + 1) /\ n < n + 1 /\ ~Accepting
      BY <3>3 DEF AlreadyReviewed, Accepting
    <3>5. c = branch.head
      BY <2>2
    <3> HIDE DEF c, says
    <3>6. CASE StartReview("lead", n + 1, c) /\ UNCHANGED checks
      BY <1>2, <1>8, <3>2, <3>4, <3>6, StartReviewIs
    <3>7. CASE EnterMergeGate("lead", c)
      BY <1>8, <3>2, <3>4, <3>5, <3>7 DEF Outcome
    <3>8. CASE \/ waitRun("round_cap", "rounds") /\ Done("lead") /\ UNCHANGED <<feature, checks>>
               \/ StopAtPauseBoundary("lead") /\ UNCHANGED <<feature, checks>>
      BY <1>8, <3>2, <3>8, HandlersWait DEF Outcome
    <3> QED
      BY <3>1, <3>6, <3>7, <3>8
  <2> QED
    BY <1>2, <2>1, <2>2
<1>9. CASE r = "lead" /\ Is("lead", "update") /\ VerifyBaseUpdate
  <2> DEFINE m == att["reviewer"].n + 1
             c == result["lead"].commit
  <2>1. CASE result["lead"].says = "nothing" \/ c # branch.head
    BY <1>3, <1>9, <2>1 DEF VerifyBaseUpdate, Tip
  <2>2. CASE ~(result["lead"].says = "nothing" \/ c # branch.head)
    <3>1. /\ log' = log \cup {Verified("update", att["lead"].n, c, "published")} /\ c = branch.head
          /\ \/ ~steps.review /\ EnterMergeGate("lead", c)
             \/ StopAtPauseBoundary("lead") /\ UNCHANGED <<feature, checks>>
             \/ StartReview("lead", m, c) /\ UNCHANGED checks
      BY <2>2, <1>9 DEF VerifyBaseUpdate, Tip
    <3>2. NewOf("lead")
      BY <3>1, AddsEvent
    <3>3. ~AlreadyReviewed(m) /\ ~Answers(att["lead"])
      BY <1>2, <1>9 DEF AlreadyReviewed, Answers, Is
    <3>4. ~steps.review => ~Accepting
      BY DEF IInv, NoReviewer, Accepting
    <3> HIDE DEF c, m
    <3>5. CASE ~steps.review /\ EnterMergeGate("lead", c)
      BY <1>9, <3>1, <3>2, <3>4, <3>5 DEF Outcome
    <3>6. CASE StartReview("lead", m, c) /\ UNCHANGED checks
      BY <1>2, <1>9, <3>2, <3>3, <3>6, StartReviewIs
    <3>7. CASE StopAtPauseBoundary("lead") /\ UNCHANGED <<feature, checks>>
      BY <1>9, <3>2, <3>7, HandlersWait DEF Outcome
    <3> QED
      BY <3>1, <3>5, <3>6, <3>7
  <2> QED
    BY <1>2, <2>1, <2>2
<1> QED
  BY <1>2, <1>4, <1>5, <1>6, <1>7, <1>8, <1>9, VerifyIs

LEMMA VerifyKeepsOwners ==
    ASSUME IInv, Owned, NEW r \in Roles, Verify(r)
    PROVE  Owned'
<1>1. /\ Outcome(r) /\ NewOf(r)
      /\ pc[r].at = "verify" /\ UNCHANGED <<steps, sess, att, down>> /\ log \subseteq log' /\ RunOK(run)
  BY VerifyOutcomes, VerifyIs DEF Owned, NewOf, IInv, Typed
<1>2. CASE Done(r) /\ Blocks /\ UNCHANGED feature
  BY <1>1, <1>2, BlocksStops, EndsKeepOwners
<1>3. ASSUME NEW to \in Roles, Starts(r, to) PROVE Owned'
  BY <1>1, <1>3, ReviewKeepsOwners, AnswerKeepsOwners, RolesAre DEF Starts
<1>4. CASE Joins(r)
  BY <1>1, <1>4, JoiningKeepsOwners DEF Joins
<1>5. CASE r = "lead" /\ EnterMergeGate("lead", branch.head) /\ ~Accepting
  <2>1. /\ Done("lead") /\ feature' = "ready_to_merge"
        /\ (run.paused /\ waitRun("phase_checkpoint", "boundary")) \/ AtTheGate(run, branch.head)
    BY <1>5 DEF EnterMergeGate, Tip
  <2>2. run'.status # "running"
    BY <1>1, <2>1, GateStops, HandlersWait, BlocksStops
  <2> QED
    BY <1>1, <1>5, <2>1, <2>2, EndsKeepOwners
<1> QED
  BY <1>1, <1>2, <1>3, <1>4, <1>5 DEF Outcome

\* A step of the rows, at which no goroutine moves.
LEMMA RowsKeepOwners ==
    ASSUME IInv, Owned, UNCHANGED <<steps, sess, att, log, pc>>, Accepting => feature' = feature,
           run'.status # "running" \/ (run'.status = run.status /\ down' = down /\ feature' = feature)
    PROVE  Owned'
<1>1. WorkersOwned'
  BY DEF Owned, WorkersOwned
<1>2. AcceptanceFits' /\ AnswersFollow' /\ FirstTurns'
  BY DEF Owned, AcceptanceFits, Accepting, AnswersFollow, Reviewing, FirstTurns
<1>3. RunningIsOwned'
  BY DEF Owned, RunningIsOwned, Busy, Forgotten, Resting, Is
<1> QED
  BY <1>1, <1>2, <1>3 DEF Owned

LEMMA EndTurnKeepsOwners ==
    ASSUME IInv, Owned, NEW r \in Roles, NEW res \in Results(r), NEW recorded \in Recorded, EndTurn(r, res, recorded)
    PROVE  Owned'
<1>1. /\ pc[r].at = "turn" /\ UNCHANGED <<steps, run, feature, att, log, down>>
      /\ sess' = [sess EXCEPT ![r] = "waiting"] /\ pc' = [pc EXCEPT ![r].at = "verify"]
  BY DEF EndTurn
<1>2. /\ pc'[r].at = "verify" /\ sess'[r] = "waiting" /\ sess[r] = "running"
      /\ \A x \in Roles : x # r => pc'[x] = pc[x] /\ sess'[x] = sess[x]
  BY <1>1 DEF IInv, Typed, PcOK, PlacesFit
<1>3. WorkersOwned'
  BY <1>1, <1>2 DEF Owned, WorkersOwned
<1>4. AcceptanceFits'
  BY <1>1, <1>2, RolesAre DEF Owned, AcceptanceFits, Accepting
<1>5. AnswersFollow'
  BY <1>1, <1>2, RolesAre DEF Owned, AnswersFollow, Reviewing
<1>6. FirstTurns'
  BY <1>1, <1>2, RolesAre DEF Owned, FirstTurns
<1>7. RunningIsOwned'
  BY <1>2 DEF RunningIsOwned, Busy
<1> QED
  BY <1>3, <1>4, <1>5, <1>6, <1>7 DEF Owned

LEMMA AdmitKeepsOwners ==
    ASSUME IInv, Owned, NEW r \in Roles, Admit(r)
    PROVE  Owned'
<1> DEFINE a == pc[r].next
<1>1. pc[r].at = "admit" /\ ~down /\ UNCHANGED <<steps, feature, log, down>> /\ RunOK(run)
  BY DEF Admit, IInv, Typed
<1>2. CASE ~MayAdmit(r, a)
  <2>1. Done(r) /\ Blocks /\ UNCHANGED <<att, sess>>
    BY <1>2, HandlersWait DEF Admit
  <2> QED
    BY <1>1, <2>1, BlocksStops, EndsKeepOwners
<1>3. CASE MayAdmit(r, a)
  <2>1. /\ att' = [att EXCEPT ![r] = a] /\ sess' = [sess EXCEPT ![r] = "running"]
        /\ pc' = [pc EXCEPT ![r] = [Rest EXCEPT !.at = "turn"]]
    BY <1>3 DEF Admit
  <2>2. /\ pc'[r].at = "turn" /\ sess'[r] = "running" /\ sess[r] = "waiting" /\ att'[r] = a
        /\ \A x \in Roles : x # r => pc'[x] = pc[x] /\ sess'[x] = sess[x] /\ att'[x] = att[x]
    BY <1>3, <2>1 DEF IInv, Typed, PcOK, MayAdmit, Rest
  <2>3. /\ r = "lead" => ~Reviewing /\ ~Accepting
        /\ r = "reviewer" => a.kind = "review" /\ pc["lead"].at \in {"idle", "join"}
    BY <1>1 DEF Owned, AnswersFollow, AcceptanceFits, IInv, ReviewStarts, PlacesFit
  <2>4. \A x \in Roles : sess[x] = "waiting"
    <3>1. CASE run.status = "running"
      BY <1>3, <3>1 DEF MayAdmit
    <3>2. CASE run.status # "running"
      <4>1. a.kind = "update" /\ r = "lead"
        BY <1>3, <2>3, <3>2, RolesAre DEF MayAdmit
      <4>2. sess["reviewer"] \in {"running", "waiting"} /\ att["reviewer"].kind \in ReviewerKinds
        BY RolesAre DEF IInv, Typed
      <4>3. sess["reviewer"] = "waiting"
        BY <2>3, <4>1, <4>2 DEF Reviewing, Accepting, ReviewerKinds, IInv, PlacesFit
      <4> QED
        BY <2>2, <4>1, <4>3, RolesAre
    <3> QED
      BY <3>1, <3>2
  <2>5. WorkersOwned'
    BY <2>2, <2>4 DEF WorkersOwned
  <2>6. AcceptanceFits'
    <3>1. CASE r = "lead"
      <4>1. ~Accepting' /\ pc'["reviewer"] = pc["reviewer"] /\ att'["reviewer"] = att["reviewer"]
        BY <1>1, <2>2, <2>3, <3>1, RolesAre DEF Accepting
      <4> QED
        BY <1>1, <2>2, <3>1, <4>1 DEF Owned, AcceptanceFits
    <3>2. CASE r = "reviewer"
      <4>1. ~Accepting' /\ pc'["reviewer"].at = "turn" /\ pc'["lead"] = pc["lead"] /\ att'["lead"] = att["lead"]
        BY <2>2, <2>3, <3>2, RolesAre DEF Accepting
      <4> QED
        BY <1>1, <4>1 DEF Owned, AcceptanceFits
    <3> QED
      BY <3>1, <3>2, RolesAre
  <2>7. AnswersFollow'
    <3>1. CASE r = "lead"
      <4>1. ~Reviewing' /\ pc'["reviewer"].at # "admit"
        BY <1>1, <2>2, <2>3, <3>1, RolesAre DEF Reviewing, IInv, ReviewStarts
      <4> QED
        BY <4>1 DEF AnswersFollow
    <3>2. CASE r = "reviewer"
      <4>1. /\ pc'["reviewer"].at = "turn" /\ pc'["lead"] = pc["lead"] /\ att'["lead"] = att["lead"]
            /\ sess'["lead"] = "waiting" /\ att'["reviewer"].n = pc["reviewer"].next.n
        BY <2>2, <2>4, <3>2, RolesAre
      <4> QED
        BY <1>1, <2>3, <3>2, <4>1 DEF Owned, AnswersFollow
    <3> QED
      BY <3>1, <3>2, RolesAre
  <2>8. FirstTurns'
    <3>1. CASE r = "lead"
      BY <1>1, <2>2, <3>1, RolesAre DEF Owned, FirstTurns
    <3>2. CASE r = "reviewer"
      <4>1. sess'["lead"] = "waiting" /\ pc'["lead"].at \in {"idle", "join"}
        BY <2>2, <2>3, <2>4, <3>2, RolesAre
      <4> QED
        BY <4>1 DEF FirstTurns
    <3> QED
      BY <3>1, <3>2, RolesAre
  <2>9. RunningIsOwned'
    BY <2>2 DEF RunningIsOwned, Busy
  <2> QED
    BY <2>5, <2>6, <2>7, <2>8, <2>9 DEF Owned
<1> QED
  BY <1>2, <1>3

LEMMA JoinKeepsOwners ==
    ASSUME IInv, Owned, NEW r \in Roles, Join(r)
    PROVE  Owned'
<1> DEFINE logged == \E v \in log : v.kind = "implementation" /\ v.n = att["lead"].n
           ready == (\A x \in Roles : sess[x] = "waiting") /\ logged
           first == Is("lead", "implementation") /\ Is("reviewer", "acceptance")
<1>1. /\ pc[r].at = "join" /\ ~down /\ UNCHANGED <<steps, sess, att, result, log, down>>
      /\ TryStartAcceptanceReview(r) /\ log \subseteq log' /\ RunOK(run) /\ sess[r] = "waiting" /\ steps.tests
  BY DEF Join, IInv, Typed, PlacesFit
<1>2. /\ ~ready => Done(r) /\ UNCHANGED <<run, feature>>
      /\ ready /\ ~first => RequireReview(r) /\ UNCHANGED feature
      /\ ready /\ first => \/ StopAtPauseBoundary(r) /\ UNCHANGED feature
                           \/ Next1(r, "reviewer", Attempt("review", 1))
  BY <1>1 DEF TryStartAcceptanceReview
<1>3. CASE ready
  <2>1. sess["reviewer"] = "waiting"
    BY <1>3, RolesAre
  <2>2. first => ~Answers(att["lead"])
    BY DEF Is, Answers
  <2> HIDE DEF ready
  <2>3. CASE Done(r) /\ Blocks /\ UNCHANGED feature
    BY <1>1, <2>3, BlocksStops, EndsKeepOwners
  <2>4. CASE first /\ Next1(r, "reviewer", Attempt("review", 1))
    BY <1>1, <2>1, <2>2, <2>4, ReviewKeepsOwners
  <2> QED
    BY <1>2, <1>3, <2>3, <2>4, HandlersWait
<1>4. CASE ~ready
  <2>1. Done(r) /\ UNCHANGED <<run, feature>>
    BY <1>2, <1>4
  <2>2. \A x \in Roles : x # r => pc'[x] = pc[x]
    BY <2>1 DEF Done
  <2>3. RunningIsOwned'
    <3> SUFFICES ASSUME run.status = "running" PROVE Busy' \/ Forgotten'
      BY <1>1, <2>1 DEF RunningIsOwned
    <3>1. CASE \E x \in Roles : sess[x] # "waiting"
      <4>1. PICK x \in Roles : sess[x] # "waiting"
        BY <3>1
      <4>2. x # r /\ sess[x] = "running"
        BY <1>1, <4>1 DEF IInv, Typed
      <4>3. pc'[x].at = "turn"
        BY <1>1, <2>2, <4>2 DEF Owned, WorkersOwned
      <4> QED
        BY <4>3 DEF Busy
    <3>2. CASE (\A x \in Roles : sess[x] = "waiting") /\ ~logged
      <4>1. r = "reviewer" /\ att["reviewer"].kind = "acceptance" /\ feature = "implementing"
        <5>1. r # "lead"
          BY <1>1, <3>2 DEF Owned, AcceptanceFits
        <5> QED
          BY <1>1, <5>1, RolesAre DEF Owned, AcceptanceFits, Accepting
      <4> QED
        BY <1>1, <2>1, <3>2, <4>1 DEF Forgotten, Resting, Is
    <3> QED
      BY <1>4, <3>1, <3>2
  <2> HIDE DEF ready
  <2> QED
    BY <1>1, <2>1, <2>3, EndsKeepOwners
<1> QED
  BY <1>3, <1>4

LEMMA RefuseKeepsOwners ==
    ASSUME IInv, Owned, NEW r \in Roles, Refuse(r)
    PROVE  Owned'
<1>1. pc[r].at = "verify" /\ RequireReview(r) /\ UNCHANGED <<steps, sess, att, down, log, feature>> /\ RunOK(run)
  BY DEF Refuse, IInv, Typed
<1>2. Done(r) /\ Blocks
  BY <1>1, HandlersWait
<1> QED
  BY <1>1, <1>2, BlocksStops, EndsKeepOwners

LEMMA CrashKeepsOwners ==
    ASSUME IInv, Owned, Crash
    PROVE  Owned'
<1>1. down' = TRUE /\ pc' = [r \in Roles |-> Rest] /\ UNCHANGED <<steps, run, feature, sess, att, log>>
  BY DEF Crash
<1>2. \A x \in Roles : pc'[x].at = "idle"
  BY <1>1, RestIsIdle
<1>3. WorkersOwned' /\ RunningIsOwned'
  BY <1>1 DEF WorkersOwned, RunningIsOwned
<1>4. AcceptanceFits' /\ AnswersFollow' /\ FirstTurns'
  BY <1>1, <1>2, RolesAre DEF Owned, AcceptanceFits, Accepting, AnswersFollow, Reviewing, FirstTurns
<1> QED
  BY <1>3, <1>4 DEF Owned

-----------------------------------------------------------------------------
\* What holds of the rows whether or not the coordinator is up.
TurnsFollow == AcceptanceFits /\ AnswersFollow /\ FirstTurns

LEMMA PlacedKeepsOwners ==
    ASSUME IInv, \A x \in Roles : pc[x].at = "idle" /\ sess[x] = "waiting", NEW s \in Roles,
           NEW w, w = [at |-> w.at, next |-> w.next], w.at \in {"verify", "admit"}, pc' = Placed(s, w),
           s = "reviewer" => /\ att["reviewer"].kind = "review"
                             /\ Answers(att["lead"]) => att["lead"].n < att["reviewer"].n
                             /\ w.at = "admit" => w.next.n = att["reviewer"].n,
           s = "lead" /\ ((w.at = "verify" /\ att["lead"].kind = "implementation")
                          \/ (w.at = "admit" /\ w.next.kind = "implementation")) => att["reviewer"].kind # "review",
           UNCHANGED <<steps, sess, att, log>>
    PROVE  Owned'
<1>1. pc'[s] = w /\ \A x \in Roles : x # s => pc'[x].at = "idle"
  <2>1. w.at \in Places /\ PcOK(pc)
    BY DEF Places, IInv, Typed
  <2> QED
    BY <2>1, PcMoves
<1>2. WorkersOwned' /\ RunningIsOwned'
  BY <1>1 DEF WorkersOwned, RunningIsOwned, Busy
<1>3. sess["lead"] = "waiting" /\ sess["reviewer"] = "waiting"
  BY RolesAre
<1>4. AcceptanceFits' /\ AnswersFollow' /\ FirstTurns'
  <2>1. CASE s = "lead"
    <3>1. pc'["lead"] = w /\ pc'["reviewer"].at = "idle"
      BY <1>1, <2>1, RolesAre
    <3> QED
      BY <1>3, <2>1, <3>1 DEF AcceptanceFits, Accepting, AnswersFollow, Reviewing, FirstTurns
  <2>2. CASE s = "reviewer"
    <3>1. pc'["reviewer"] = w /\ pc'["lead"].at = "idle"
      BY <1>1, <2>2, RolesAre
    <3> QED
      BY <1>3, <2>2, <3>1 DEF AcceptanceFits, Accepting, AnswersFollow, Reviewing, FirstTurns
  <2> QED
    BY <2>1, <2>2, RolesAre
<1> QED
  BY <1>2, <1>4 DEF Owned

LEMMA SpeakerFollows ==
    ASSUME IInv
    PROVE  /\ Speaker \in Roles
           /\ Speaker = "reviewer" => /\ att["reviewer"].kind = "review"
                                      /\ Answers(att["lead"]) => att["lead"].n < att["reviewer"].n
           /\ Speaker = "lead" /\ att["lead"].kind = "implementation" => att["reviewer"].kind # "review"
<1>1. Speaker \in Roles
  BY DEF Speaker, Roles
<1>2. /\ Speaker = "reviewer" => /\ att["reviewer"].kind = "review"
                                 /\ Answers(att["lead"]) => att["reviewer"].n > att["lead"].n
      /\ Speaker = "lead" /\ att["lead"].kind = "implementation" => att["reviewer"].kind # "review"
  BY DEF Speaker, Is, Answers, IInv, FeatureFits
<1> QED
  BY <1>1, <1>2

LEMMA ReattachedKeepsOwners ==
    ASSUME IInv, TurnsFollow, \A x \in Roles : pc[x].at = "idle", ~Resting, pc' = Reattached,
           UNCHANGED <<steps, feature, sess, att, log>>
    PROVE  Owned'
<1>1. \A x \in Roles : /\ sess[x] = "running" => pc'[x].at = "turn"
                       /\ sess[x] # "running" => pc'[x].at = "idle"
  BY DEF Reattached, Rest
<1>2. WorkersOwned'
  BY <1>1 DEF WorkersOwned
<1>3. RunningIsOwned'
  BY <1>1 DEF RunningIsOwned, Busy, Resting
<1>4. AcceptanceFits' /\ AnswersFollow' /\ FirstTurns'
  BY <1>1, RolesAre DEF TurnsFollow, AcceptanceFits, Accepting, AnswersFollow, Reviewing, FirstTurns
<1> QED
  BY <1>2, <1>3, <1>4 DEF Owned

\* The gate again keeps the rows, or the lead gets a turn to fix what was found.
LEMMA AtGateKeepsOwners ==
    ASSUME IInv, TurnsFollow, NEW row, RunOK(row), NEW chosen, RecoverAtGate(row, chosen),
           UNCHANGED <<steps, sess, att, log>>
    PROVE  Owned'
<1>1. feature = "ready_to_merge" /\ \A x \in Roles : pc[x].at = "idle" /\ sess[x] = "waiting"
  BY DEF RecoverAtGate, IInv, FeatureFits
<1>2. CASE run'.status # "running" /\ UNCHANGED <<pc, feature>>
  BY <1>2 DEF Owned, TurnsFollow, WorkersOwned, RunningIsOwned, AcceptanceFits, Accepting, AnswersFollow,
     Reviewing, FirstTurns
<1>3. CASE AtTheGate(row, branch.approved) /\ UNCHANGED <<pc, feature>>
  BY <1>2, <1>3, GateStops
<1>4. CASE PreviewCheckFailed(row, chosen)
  <2>1. CASE ~MayFix(chosen)
    <3>1. Waits(row, "blocker", "preview_failed") /\ UNCHANGED <<pc, feature>>
      BY <1>4, <2>1 DEF PreviewCheckFailed
    <3> QED
      BY <1>2, <3>1, StopsRunning DEF WaitKinds, Whys
  <2>2. CASE MayFix(chosen)
    <3> DEFINE w == [at |-> "admit", next |-> Again(att["lead"])]
    <3>1. pc' = Placed("lead", w) /\ att["lead"].kind = "implementation"
      BY <1>4, <2>2 DEF PreviewCheckFailed, MayFix, Is, Placed
    <3>2. att["reviewer"].kind # "review"
      BY <1>1, <3>1 DEF IInv, FeatureFits, NoReviewer
    <3>3. w = [at |-> w.at, next |-> w.next] /\ w.at = "admit"
      OBVIOUS
    <3> HIDE DEF w
    <3> QED
      BY <1>1, <3>1, <3>2, <3>3, RolesAre, PlacedKeepsOwners
  <2> QED
    BY <2>1, <2>2
<1> QED
  BY <1>3, <1>4 DEF RecoverAtGate

LEMMA RecoverKeepsOwners ==
    ASSUME IInv, TurnsFollow, ~Busy, NEW row, RunOK(row), NEW chosen, Recover(row, chosen), 
           UNCHANGED <<steps, sess, att, result, log, intent>>
    PROVE  Owned'
<1>1. \A x \in Roles : pc[x].at = "idle" /\ sess[x] \in {"running", "waiting"}
  BY DEF Busy, IInv, Typed
<1>2. CASE ~Resting /\ pc' = Reattached /\ UNCHANGED feature
  BY <1>1, <1>2, ReattachedKeepsOwners
<1>3. CASE RecoverAtGate(row, chosen)
  BY <1>3, AtGateKeepsOwners
<1>4. CASE Resting /\ RecoverIdle(chosen)
  <2>1. \A x \in Roles : pc[x].at = "idle" /\ sess[x] = "waiting"
    BY <1>1, <1>4 DEF Resting
  <2>2. CASE pc' = [pc EXCEPT !["lead"] = [at |-> "admit", next |-> Attempt("update", NextUpdate)]]
    <3> DEFINE w == [at |-> "admit", next |-> Attempt("update", NextUpdate)]
    <3>1. w = [at |-> w.at, next |-> w.next] /\ w.at = "admit" /\ w.next.kind = "update" /\ pc' = Placed("lead", w)
      BY <2>2 DEF Attempt, Placed
    <3> HIDE DEF w
    <3> QED
      BY <2>1, <3>1, RolesAre, PlacedKeepsOwners
  <2>3. CASE pc' = [pc EXCEPT ![Speaker] = [Rest EXCEPT !.at = "verify"]]
    <3> DEFINE w == [Rest EXCEPT !.at = "verify"]
               s == Speaker
    <3>1. w.at = "verify" /\ w = [at |-> w.at, next |-> w.next] /\ pc' = Placed(s, w)
      BY <2>3 DEF Rest, Placed
    <3> HIDE DEF w, s
    <3> QED
      BY <2>1, <3>1, SpeakerFollows, PlacedKeepsOwners DEF s
  <2>4. CASE Answer(Speaker)
    <3> DEFINE s == Speaker
               w == [at |-> "admit", next |-> Again(att[s])]
    <3>1. w.at = "admit" /\ w.next = Again(att[s]) /\ w = [at |-> w.at, next |-> w.next] /\ pc' = Placed(s, w)
      BY <2>4 DEF Answer, Placed
    <3>2. s \in Roles /\ AttemptOK(att[s])
      BY SpeakerFollows DEF IInv, Typed
    <3> HIDE DEF w, s
    <3>3. /\ w.next.kind = att[s].kind
          /\ att[s].kind \in {"review", "readiness"} => w.next.n = att[s].n
      BY <3>1, <3>2, AgainIs
    <3> QED
      BY <2>1, <3>1, <3>2, <3>3, SpeakerFollows, PlacedKeepsOwners DEF s
  <2> QED
    BY <1>4, <2>2, <2>3, <2>4 DEF RecoverIdle
<1> QED
  BY <1>2, <1>3, <1>4 DEF Recover

LEMMA RestartKeepsOwners ==
    ASSUME IInv, Owned, Restart
    PROVE  Owned'
<1>1. /\ down /\ ~Busy /\ RunOK(run) /\ UNCHANGED <<steps, sess, att, result, log, intent>>
  BY DEF Restart, IInv, Typed, PlacesFit, Busy
<1>2. CASE ~Lost
  <2>1. run'.status # "running" /\ UNCHANGED <<pc, feature>>
    BY <1>2 DEF Restart, Lost
  <2> QED
    BY <1>1, <2>1, RowsKeepOwners
<1>3. CASE run'.status # "running" /\ UNCHANGED <<pc, feature>>
  BY <1>1, <1>3, RowsKeepOwners
<1>4. CASE Recover(run, FALSE)
  BY <1>1, <1>4, RecoverKeepsOwners DEF Owned, TurnsFollow
<1>5. Moved(run, "waiting", "blocker", "refused").status = "waiting"
  BY <1>1, MovedOK DEF RunStatuses, WaitKinds, Whys
<1>6. waitRun("phase_checkpoint", "boundary") => run'.status # "running"
  BY <1>1, HandlersWait, BlocksStops
<1> QED
  BY <1>2, <1>3, <1>4, <1>5, <1>6 DEF Restart

LEMMA PauseStepsKeepOwners ==
    ASSUME IInv, Owned, Pause \/ Resume \/ Continue
    PROVE  Owned'
<1>1. RunOK(run) /\ RunOK(Unpaused(run)) /\ Unpaused(run).status = run.status /\ Paused(run).status = run.status
  BY PausedOK DEF IInv, Typed, RunOK, RunType, Unpaused, Paused
<1>2. CASE Pause
  BY <1>1, <1>2, RowsKeepOwners DEF Pause
<1>3. CASE Resume
  <2>1. UNCHANGED <<steps, sess, att, result, log, intent, down>>
    BY <1>3 DEF Resume
  <2>2. CASE ~Busy /\ Recover(Unpaused(run), FALSE)
    BY <1>1, <2>1, <2>2, RecoverKeepsOwners DEF Owned, TurnsFollow
  <2>3. CASE run' = Unpaused(run) /\ UNCHANGED <<pc, feature>>
    BY <1>1, <2>1, <2>3, RowsKeepOwners
  <2> QED
    BY <1>3, <2>2, <2>3 DEF Resume
<1>4. CASE Continue
  <2> DEFINE row == Moved(run, "running", "none", "none")
  <2>1. RunOK(row)
    BY <1>1, MovedOK DEF RunStatuses, Whys
  <2>2. ~Busy /\ Recover(row, TRUE) /\ UNCHANGED <<steps, sess, att, result, log, intent>>
    BY <1>4 DEF Continue
  <2> HIDE DEF row
  <2> QED
    BY <2>1, <2>2, RecoverKeepsOwners DEF Owned, TurnsFollow
<1> QED
  BY <1>2, <1>3, <1>4

LEMMA GateStepsKeepOwners ==
    ASSUME IInv, Owned
    PROVE  /\ \A k \in checks, s \in {"passed", "failed"} : CompleteCheck(k, s) => Owned'
           /\ \A k \in checks : BlockOverdueCheck(k) => Owned'
           /\ \A k \in told : PreviewCheckCompleted(k) => Owned'
           /\ StartBaseUpdate => Owned'
           /\ Merge => Owned'
<1>1. RunOK(run)
  BY DEF IInv, Typed
<1>2. ASSUME NEW k \in checks, NEW s \in {"passed", "failed"}, CompleteCheck(k, s) PROVE Owned'
  BY <1>2, RowsKeepOwners DEF CompleteCheck
<1>3. ASSUME NEW k \in checks, BlockOverdueCheck(k) PROVE Owned'
  BY <1>1, <1>3, HandlersWait, BlocksStops, RowsKeepOwners DEF BlockOverdueCheck
<1>4. ASSUME NEW k \in told, PreviewCheckCompleted(k) PROVE Owned'
  <2>1. UNCHANGED <<steps, sess, att, log, down>>
    BY <1>4 DEF PreviewCheckCompleted
  <2>2. CASE RecoverAtGate(run, FALSE)
    BY <1>1, <2>1, <2>2, AtGateKeepsOwners DEF Owned, TurnsFollow
  <2>3. CASE UNCHANGED <<run, pc, feature, branch, checks>>
    BY <2>1, <2>3, RowsKeepOwners
  <2> QED
    BY <1>4, <2>2, <2>3 DEF PreviewCheckCompleted
<1>5. ASSUME StartBaseUpdate PROVE Owned'
  <2> DEFINE w == [at |-> "admit", next |-> Attempt("update", NextUpdate)]
  <2>1. /\ \A x \in Roles : pc[x].at = "idle" /\ sess[x] = "waiting"
        /\ pc' = Placed("lead", w) /\ UNCHANGED <<steps, sess, att, log>>
    BY <1>5 DEF StartBaseUpdate, IInv, FeatureFits, Placed
  <2>2. w = [at |-> w.at, next |-> w.next] /\ w.at = "admit" /\ w.next.kind = "update"
    BY DEF Attempt
  <2> HIDE DEF w
  <2> QED
    BY <2>1, <2>2, RolesAre, PlacedKeepsOwners
<1>6. ASSUME Merge PROVE Owned'
  <2>1. /\ UNCHANGED <<steps, sess, att, log, pc>> /\ feature = "ready_to_merge"
        /\ run' = Moved(run, "succeeded", "none", "none")
    BY <1>6 DEF Merge
  <2>2. Moved(run, "succeeded", "none", "none").status = "succeeded"
    BY <1>1, MovedOK DEF RunStatuses, RunEnds, Whys
  <2>3. ~Accepting
    BY <2>1 DEF Owned, AcceptanceFits
  <2> QED
    BY <2>1, <2>2, <2>3, RowsKeepOwners
<1> QED
  BY <1>2, <1>3, <1>4, <1>5, <1>6

LEMMA StepKeepsOwners == IInv /\ Owned /\ [Next]_vars => Owned'
<1> SUFFICES ASSUME IInv, Owned, [Next]_vars PROVE Owned'
  OBVIOUS
<1>1. ASSUME NEW r \in Roles, TurnEnds(r) PROVE Owned'
  BY <1>1, EndTurnKeepsOwners DEF TurnEnds
<1>2. ASSUME NEW r \in Roles, Admit(r) \/ Verify(r) \/ Join(r) \/ Refuse(r) PROVE Owned'
  BY <1>2, AdmitKeepsOwners, VerifyKeepsOwners, JoinKeepsOwners, RefuseKeepsOwners
<1>3. ASSUME NEW k \in checks, NEW s \in {"passed", "failed"}, CompleteCheck(k, s) PROVE Owned'
  BY <1>3, GateStepsKeepOwners
<1>4. ASSUME NEW k \in checks, BlockOverdueCheck(k) PROVE Owned'
  BY <1>4, GateStepsKeepOwners
<1>5. ASSUME NEW k \in told, PreviewCheckCompleted(k) PROVE Owned'
  BY <1>5, GateStepsKeepOwners
<1>6. CASE StartBaseUpdate \/ Merge
  BY <1>6, GateStepsKeepOwners
<1>7. CASE Pause \/ Resume \/ Continue
  BY <1>7, PauseStepsKeepOwners
<1>8. CASE Push
  BY <1>8, RowsKeepOwners DEF Push
<1>9. CASE Crash \/ Restart
  BY <1>9, CrashKeepsOwners, RestartKeepsOwners
<1>10. CASE UNCHANGED vars
  BY <1>10, RowsKeepOwners DEF vars
<1> QED
  BY <1>1, <1>2, <1>3, <1>4, <1>5, <1>6, <1>7, <1>8, <1>9, <1>10 DEF Next

LEMMA InitOwned == Init => Owned
<1> SUFFICES ASSUME Init PROVE Owned
  OBVIOUS
<1>1. /\ feature = "implementing" /\ att["lead"] = Attempt("implementation", 1) /\ sess["lead"] = "running"
      /\ att["reviewer"].kind \in {"acceptance", "planning"}
      /\ \A r \in Roles : /\ sess[r] = "running" => pc[r].at = "turn"
                          /\ sess[r] # "running" => pc[r].at = "idle"
  BY DEF Init, Attempt, NoTurn, Rest, Roles
<1>2. pc["lead"].at = "turn" /\ pc["reviewer"].at \in {"turn", "idle"}
  BY <1>1, RolesAre
<1> QED
  BY <1>1, <1>2, RolesAre DEF Owned, WorkersOwned, AcceptanceFits, AnswersFollow, FirstTurns, RunningIsOwned, Busy, Accepting,
     Reviewing

\* A running run has somebody at work on it, but for the one a restart forgot.
THEOREM RunningStaysOwned == Spec => []RunningIsOwned
<1>1. Spec => [](IInv /\ Owned)
  BY InitHolds, StepKeeps, InitOwned, StepKeepsOwners, PTL DEF Spec
<1>2. Owned => RunningIsOwned
  BY DEF Owned
<1> QED
  BY <1>1, <1>2, PTL

-----------------------------------------------------------------------------
(* Turns are numbered, and an update has a next number.                   *)

LEMMA SmallerIsBelow == ASSUME NEW x \in Nat, NEW y \in Nat, y < x PROVE <<y, x>> \in OpToRel(<, Nat)
<1>1. <<y, x>> \in Nat \X Nat
  OBVIOUS
<1>2. <<y, x>>[1] < <<y, x>>[2]
  OBVIOUS
<1> QED
  BY <1>1, <1>2, Zenon DEF OpToRel

\* A set of numbers has a least one.
LEMMA LeastNumber == ASSUME NEW T, T \subseteq Nat, T # {} PROVE \E x \in T : \A y \in T : x <= y
<1>1. PICK x \in T : \A y \in T : ~ (<<y, x>> \in OpToRel(<, Nat))
  BY NatLessThanWellFounded, WFMin
<1>2. ASSUME NEW y \in T PROVE ~(y < x)
  <2>1. x \in Nat /\ y \in Nat
    OBVIOUS
  <2>2. ~ (<<y, x>> \in OpToRel(<, Nat))
    BY <1>1
  <2> QED
    BY <2>1, <2>2, SmallerIsBelow, Zenon
<1>3. \A y \in T : x <= y
  BY <1>2
<1> QED
  BY <1>3, Zenon

\* A set of numbers that has a bound has a greatest one.
LEMMA GreatestNumber ==
    ASSUME NEW S, S \subseteq Nat, S # {}, NEW b \in Nat, \A m \in S : m <= b
    PROVE  \E x \in S : \A m \in S : m <= x
<1> DEFINE T == {c \in Nat : \A m \in S : m <= c}
<1>1. PICK x \in T : \A y \in T : x <= y
  <2>1. T \subseteq Nat /\ b \in T
    OBVIOUS
  <2> HIDE DEF T
  <2> QED
    BY <2>1, LeastNumber
<1>2. x \in Nat /\ \A m \in S : m <= x
  OBVIOUS
<1>3. x \in S
  <2> SUFFICES ASSUME x \notin S PROVE FALSE
    OBVIOUS
  <2>1. \A m \in S : m < x
    BY <1>2
  <2>2. x > 0
    <3>1. PICK m : m \in S
      OBVIOUS
    <3> QED
      BY <1>2, <2>1, <3>1
  <2>3. x - 1 \in T
    BY <1>2, <2>1, <2>2
  <2> QED
    BY <1>1, <1>2, <2>3
<1> QED
  BY <1>2, <1>3

\* Turns have positive numbers, and those in the log have a bound.
Numbered ==
    /\ \E b \in Nat : \A v \in log : v.n \in Nat /\ v.n <= b
    /\ \A r \in Roles : att[r].n \in Nat \ {0}
    /\ pc["lead"].at = "admit" => pc["lead"].next.n \in Nat \ {0}
    /\ joinMu \in Roles \cup {"none"}

LEMMA NextUpdateIs == ASSUME Numbered PROVE NextUpdate \in Nat \ {0}
<1> DEFINE tried == {v.n : v \in {x \in log : x.kind = "update"}} \cup (IF Is("lead", "update") THEN {att["lead"].n} ELSE {0})
           T == {m + 1 : m \in tried}
<1>1. PICK b \in Nat : \A v \in log : v.n \in Nat /\ v.n <= b
  BY DEF Numbered
<1>2. att["lead"].n \in Nat
  BY RolesAre DEF Numbered
<1>3. tried \subseteq Nat /\ tried # {} /\ \A m \in tried : m <= b + att["lead"].n
  BY <1>1, <1>2
<1>4. PICK x \in tried : \A m \in tried : m <= x
  <2>1. b + att["lead"].n \in Nat
    BY <1>1, <1>2
  <2> HIDE DEF tried
  <2> QED
    BY <1>3, <2>1, GreatestNumber
<1>5. x + 1 \in T /\ \A m \in tried : m < x + 1
  <2>1. x \in Nat
    BY <1>3
  <2> HIDE DEF tried
  <2> QED
    BY <1>3, <1>4, <2>1
<1>6. NextUpdate = CHOOSE n \in T : \A m \in tried : m < n
  BY DEF NextUpdate
<1> HIDE DEF tried
<1>7. T \subseteq Nat \ {0}
  BY <1>3
<1> HIDE DEF T
<1>8. NextUpdate \in T
  BY <1>5, <1>6
<1> QED
  BY <1>7, <1>8

\* A step that adds no event and gives the lead a numbered turn, or none.
LEMMA SameNumbers ==
    ASSUME Numbered, UNCHANGED <<att, log>>, joinMu' \in Roles \cup {"none"},
           pc'["lead"].at = "admit" => pc'["lead"] = pc["lead"] \/ pc'["lead"].next.n \in Nat \ {0}
    PROVE  Numbered'
  BY DEF Numbered

LEMMA GateNumbers ==
    ASSUME IInv, Numbered, NEW row, NEW chosen, RecoverAtGate(row, chosen)
    PROVE  pc'["lead"].at = "admit" => pc'["lead"] = pc["lead"] \/ pc'["lead"].next.n \in Nat \ {0}
<1>1. CASE pc' = pc
  BY <1>1
<1>2. CASE pc' = [pc EXCEPT !["lead"] = [at |-> "admit", next |-> Again(att["lead"])]]
  <2>1. pc'["lead"].next = Again(att["lead"])
    BY <1>2, RolesAre DEF IInv, Typed, PcOK
  <2>2. att["lead"] = [kind |-> att["lead"].kind, n |-> att["lead"].n] /\ att["lead"].n \in Nat \ {0}
    BY RolesAre DEF Numbered, IInv, Typed, AttemptOK
  <2> QED
    BY <2>1, <2>2 DEF Again
<1> QED
  BY <1>1, <1>2 DEF RecoverAtGate, PreviewCheckFailed

LEMMA RecoverNumbers ==
    ASSUME IInv, Numbered, NEW row, NEW chosen, Recover(row, chosen)
    PROVE  pc'["lead"].at = "admit" => pc'["lead"] = pc["lead"] \/ pc'["lead"].next.n \in Nat \ {0}
<1>1. DOMAIN pc = Roles
  BY DEF IInv, Typed, PcOK
<1>2. CASE pc' = Reattached
  BY <1>1, <1>2, RolesAre DEF Reattached, Rest
<1>3. CASE RecoverAtGate(row, chosen)
  BY <1>3, GateNumbers
<1>4. CASE RecoverIdle(chosen)
  <2>1. CASE pc' = [pc EXCEPT !["lead"] = [at |-> "admit", next |-> Attempt("update", NextUpdate)]]
    <3>1. pc'["lead"].next.n = NextUpdate
      BY <1>1, <2>1, RolesAre DEF Attempt
    <3> QED
      BY <3>1, NextUpdateIs
  <2>2. CASE pc' = [pc EXCEPT ![Speaker] = [Rest EXCEPT !.at = "verify"]]
    <3>1. pc'["lead"] = pc["lead"] \/ pc'["lead"].at = "verify"
      BY <1>1, <2>2, SpeakerFollows, RolesAre DEF Rest
    <3> QED
      BY <3>1
  <2>3. CASE Answer(Speaker)
    <3> DEFINE s == Speaker
    <3>1. s \in Roles /\ pc' = [pc EXCEPT ![s] = [at |-> "admit", next |-> Again(att[s])]]
      BY <2>3, SpeakerFollows DEF Answer
    <3>2. att[s] = [kind |-> att[s].kind, n |-> att[s].n] /\ att[s].n \in Nat \ {0}
      BY <3>1 DEF Numbered, IInv, Typed, AttemptOK
    <3> HIDE DEF s
    <3>3. Again(att[s]).n \in Nat \ {0}
      BY <3>2 DEF Again
    <3>4. pc'["lead"] = pc["lead"] \/ pc'["lead"].next = Again(att[s])
      BY <1>1, <3>1, RolesAre
    <3> QED
      BY <3>3, <3>4
  <2> QED
    BY <1>4, <2>1, <2>2, <2>3 DEF RecoverIdle
<1> QED
  BY <1>2, <1>3, <1>4 DEF Recover

\* The reviewer is to start after the lead, or after its own first turn.
LEMMA LeadAfterStart ==
    ASSUME PcOK(pc), NEW r \in Roles, NEW a
    PROVE  Started(r, "reviewer", a)["lead"] = IF r = "lead" THEN Rest ELSE pc["lead"]
<1> DEFINE w == [at |-> "admit", next |-> a]
           q == [pc EXCEPT ![r] = Rest, !["reviewer"] = w]
<1>1. DOMAIN pc = Roles
  BY DEF PcOK
<1> HIDE DEF w
<1>2. q["lead"] = IF r = "lead" THEN Rest ELSE pc["lead"]
  BY <1>1, RolesAre
<1> QED
  BY <1>2 DEF Started, w

LEMMA VerifyNumbers ==
    ASSUME IInv, Owned, Numbered, NEW r \in Roles, Verify(r)
    PROVE  Numbered'
<1>1. /\ UNCHANGED <<att, joinMu>> /\ Outcome(r) /\ NewOf(r) /\ pc[r].at = "verify" /\ PcOK(pc)
      /\ r \in Roles /\ DOMAIN pc = Roles
  BY VerifyIs, VerifyOutcomes DEF Owned, IInv, Typed, PcOK
<1>2. \E b \in Nat : \A v \in log' : v.n \in Nat /\ v.n <= b
  <2>1. PICK b \in Nat : \A v \in log : v.n \in Nat /\ v.n <= b
    BY DEF Numbered
  <2>2. att[r].n \in Nat
    BY DEF Numbered
  <2>3. \A v \in log' : v.n \in Nat /\ v.n <= b + att[r].n
    BY <1>1, <2>1, <2>2 DEF NewOf
  <2> QED
    BY <2>1, <2>2, <2>3
<1>3. pc'["lead"].at = "admit" => pc'["lead"] = pc["lead"] \/ pc'["lead"].next.n \in Nat \ {0}
  <2>1. CASE Done(r)
    BY <1>1, <2>1, RolesAre, RestIsIdle DEF Done
  <2>2. CASE pc' = [pc EXCEPT ![r].at = "join"]
    <3>1. pc'["lead"] = pc["lead"] \/ pc'["lead"].at = "join"
      BY <1>1, <2>2, RolesAre
    <3> QED
      BY <3>1
  <2>3. ASSUME NEW to \in Roles, Starts(r, to) PROVE pc'["lead"].at = "admit" => pc'["lead"].next.n \in Nat \ {0}
    <3>1. CASE to = "reviewer"
      <4>1. PICK n : Next1("lead", "reviewer", Attempt("review", n))
        BY <2>3, <3>1 DEF Starts
      <4>2. pc' = Started("lead", "reviewer", Attempt("review", n))
        BY <4>1 DEF Next1, Started
      <4>3. pc'["lead"] = Rest
        <5> DEFINE a == Attempt("review", n)
        <5>1. pc' = Started("lead", "reviewer", a) /\ PcOK(pc)
          BY <1>1, <4>2
        <5> HIDE DEF a
        <5>2. Started("lead", "reviewer", a)["lead"] = Rest
          BY <5>1, RolesAre, LeadAfterStart
        <5> QED
          BY <5>1, <5>2
      <4> QED
        BY <4>3, RestIsIdle
    <3>2. CASE to = "lead"
      <4>0. PICK kind \in {"readiness", "correction"} : \E n : Next1("reviewer", "lead", Attempt(kind, n))
        BY <2>3, <3>2 DEF Starts
      <4>1. PICK n : Next1("reviewer", "lead", Attempt(kind, n))
        BY <4>0
      <4>2. pc' = Started("reviewer", "lead", Attempt(kind, n)) /\ Attempt(kind, n).kind = kind
        BY <4>1 DEF Next1, Started, Attempt
      <4>3. pc'["lead"] = [at |-> "admit", next |-> Attempt(kind, n)]
        BY <1>1, <4>2, RolesAre, PcStarts
      <4>4. pc'["lead"].at = "admit" /\ pc'["lead"].next.kind = kind
        BY <4>2, <4>3
      <4>5. IInv'
        BY VerifyKeeps
      <4> QED
        BY <4>1, <4>4, <4>5 DEF IInv, PlacesFit, AttemptOK
    <3> QED
      BY <3>1, <3>2, RolesAre
  <2> QED
    BY <1>1, <2>1, <2>2, <2>3 DEF Outcome, Joins, EnterMergeGate, RequireReview
<1> QED
  BY <1>1, <1>2, <1>3 DEF Numbered

LEMMA StepNumbers == IInv /\ Owned /\ Numbered /\ [Next]_vars => Numbered'
<1> SUFFICES ASSUME IInv, Owned, Numbered, [Next]_vars PROVE Numbered'
  OBVIOUS
<1>0. joinMu \in Roles \cup {"none"} /\ DOMAIN pc = Roles /\ "lead" \in Roles
  BY RolesAre DEF Numbered, IInv, Typed, PcOK
<1>1. ASSUME NEW r \in Roles, TurnEnds(r) PROVE Numbered'
  <2>1. PICK res \in Results(r), recorded \in Recorded : EndTurn(r, res, recorded)
    BY <1>1 DEF TurnEnds
  <2>2. UNCHANGED <<att, log, joinMu>> /\ pc' = [pc EXCEPT ![r].at = "verify"]
    BY <2>1 DEF EndTurn
  <2>3. pc'["lead"] = pc["lead"] \/ pc'["lead"].at = "verify"
    BY <1>0, <2>2
  <2> QED
    BY <1>0, <2>2, <2>3, SameNumbers
<1>2. ASSUME NEW r \in Roles, Admit(r) PROVE Numbered'
  <2> DEFINE a == pc[r].next
  <2>1. pc[r].at = "admit" /\ UNCHANGED log /\ joinMu' = "none"
    BY <1>2 DEF Admit, Unlocked
  <2>2. CASE ~MayAdmit(r, a)
    <3>1. Done(r) /\ UNCHANGED att
      BY <1>2, <2>2, HandlersWait DEF Admit
    <3>2. pc'["lead"] = pc["lead"] \/ pc'["lead"].at = "idle"
      BY <1>0, <3>1, RestIsIdle DEF Done
    <3> QED
      BY <2>1, <3>1, <3>2, SameNumbers
  <2>3. CASE MayAdmit(r, a)
    <3>1. att' = [att EXCEPT ![r] = a] /\ pc' = [pc EXCEPT ![r] = [Rest EXCEPT !.at = "turn"]]
      BY <1>2, <2>3 DEF Admit
    <3>2. a.n \in Nat \ {0}
      <4>1. CASE r = "lead"
        BY <2>1, <4>1 DEF Numbered
      <4>2. CASE r = "reviewer"
        BY <2>1, <4>2 DEF IInv, PlacesFit, AttemptOK
      <4> QED
        BY <4>1, <4>2, RolesAre
    <3>3. \A x \in Roles : att'[x] = a \/ att'[x] = att[x]
      BY <3>1 DEF IInv, Typed
    <3>4. pc'["lead"] = pc["lead"] \/ pc'["lead"].at = "turn"
      BY <1>0, <3>1 DEF Rest
    <3> HIDE DEF a
    <3> QED
      BY <2>1, <3>2, <3>3, <3>4 DEF Numbered
  <2> QED
    BY <2>2, <2>3
<1>3. ASSUME NEW r \in Roles, Verify(r) PROVE Numbered'
  BY <1>3, VerifyNumbers
<1>4. ASSUME NEW r \in Roles, Join(r) PROVE Numbered'
  <2>1. UNCHANGED <<att, log>> /\ TryStartAcceptanceReview(r)
    BY <1>4 DEF Join
  <2>2. joinMu' \in {joinMu, r}
    BY <2>1 DEF TryStartAcceptanceReview, StopAtPauseBoundary
  <2>3. CASE Done(r)
    <3>1. pc'["lead"] = pc["lead"] \/ pc'["lead"].at = "idle"
      BY <1>0, <2>3, RestIsIdle DEF Done
    <3> QED
      BY <1>0, <2>1, <2>2, <3>1, SameNumbers
  <2>4. CASE Next1(r, "reviewer", Attempt("review", 1))
    <3>1. pc' = Started(r, "reviewer", Attempt("review", 1)) /\ PcOK(pc)
      BY <2>4 DEF Next1, Started, IInv, Typed
    <3>2. pc'["lead"] = pc["lead"] \/ pc'["lead"] = Rest
      <4> DEFINE a == Attempt("review", 1)
      <4>1. pc' = Started(r, "reviewer", a) /\ PcOK(pc)
        BY <3>1
      <4> HIDE DEF a
      <4>2. Started(r, "reviewer", a)["lead"] \in {Rest, pc["lead"]}
        BY <4>1, LeadAfterStart
      <4> QED
        BY <4>1, <4>2
    <3> QED
      BY <1>0, <2>1, <2>2, <3>2, SameNumbers, RestIsIdle
  <2> QED
    BY <2>1, <2>3, <2>4, HandlersWait DEF TryStartAcceptanceReview
<1>5. ASSUME NEW r \in Roles, Refuse(r) PROVE Numbered'
  <2>1. UNCHANGED <<att, log, joinMu>> /\ Done(r)
    BY <1>5, HandlersWait DEF Refuse
  <2>2. pc'["lead"] = pc["lead"] \/ pc'["lead"].at = "idle"
    BY <1>0, <2>1, RestIsIdle DEF Done
  <2> QED
    BY <1>0, <2>1, <2>2, SameNumbers
<1>6. ASSUME NEW k \in checks, (\E s \in {"passed", "failed"} : CompleteCheck(k, s)) \/ BlockOverdueCheck(k) PROVE Numbered'
  BY <1>0, <1>6, SameNumbers DEF CompleteCheck, BlockOverdueCheck, bounds
<1>7. ASSUME NEW k \in told, PreviewCheckCompleted(k) PROVE Numbered'
  <2>1. UNCHANGED <<att, log, joinMu>> /\ (RecoverAtGate(run, FALSE) \/ UNCHANGED pc)
    BY <1>7 DEF PreviewCheckCompleted
  <2> QED
    BY <1>0, <2>1, GateNumbers, SameNumbers
<1>8. CASE StartBaseUpdate
  <2>1. /\ UNCHANGED <<att, log, joinMu>>
        /\ pc' = [pc EXCEPT !["lead"] = [at |-> "admit", next |-> Attempt("update", NextUpdate)]]
    BY <1>8 DEF StartBaseUpdate
  <2>2. pc'["lead"].next.n = NextUpdate
    BY <1>0, <2>1 DEF Attempt
  <2> QED
    BY <1>0, <2>1, <2>2, NextUpdateIs, SameNumbers
<1>9. CASE Merge \/ Pause \/ Push
  BY <1>0, <1>9, SameNumbers DEF Merge, Pause, Push
<1>10. CASE Resume
  <2>1. UNCHANGED <<att, log, joinMu>> /\ (Recover(Unpaused(run), FALSE) \/ UNCHANGED pc)
    BY <1>10 DEF Resume
  <2> QED
    BY <1>0, <2>1, RecoverNumbers, SameNumbers
<1>11. CASE Continue
  <2>1. UNCHANGED <<att, log, joinMu>> /\ Recover(Moved(run, "running", "none", "none"), TRUE)
    BY <1>11 DEF Continue
  <2> QED
    BY <1>0, <2>1, RecoverNumbers, SameNumbers
<1>12. CASE Crash
  <2>1. UNCHANGED <<att, log>> /\ joinMu' = "none" /\ pc'["lead"] = Rest
    BY <1>0, <1>12 DEF Crash
  <2> QED
    BY <2>1, RestIsIdle, SameNumbers
<1>13. CASE Restart
  <2>1. UNCHANGED <<att, log, joinMu>> /\ (Recover(run, FALSE) \/ UNCHANGED pc)
    BY <1>13 DEF Restart
  <2> QED
    BY <1>0, <2>1, RecoverNumbers, SameNumbers
<1>14. CASE UNCHANGED vars
  BY <1>0, <1>14, SameNumbers DEF vars
<1> QED
  BY <1>1, <1>2, <1>3, <1>4, <1>5, <1>6, <1>7, <1>8, <1>9, <1>10, <1>11, <1>12, <1>13, <1>14 DEF Next

LEMMA InitNumbered == Init => Numbered
<1> SUFFICES ASSUME Init PROVE Numbered
  OBVIOUS
<1>1. /\ log = {} /\ joinMu = "none" /\ \A r \in Roles : att[r].n = 1
      /\ \A r \in Roles : pc[r].at # "admit"
  BY DEF Init, Attempt, NoTurn, Rest, Roles
<1> QED
  BY <1>1, RolesAre DEF Numbered

LEMMA TypesHold == IInv /\ Numbered => TypeOK
  BY DEF IInv, Typed, Numbered, TypeOK, RunOK, RunType, TestsType, BranchType, ResultType, PcOK, Places, Statuses, Recorded,
     LeadKinds, AttemptOK

-----------------------------------------------------------------------------
(* The preview checks: which of them is open, and how many have failed.    *)

\* Only a check of the approved commit, and the last one, may still be open; a fix that is
\* under way or may be asked for is within the limit.
Open(k) == k.status \in {"pending", "late"}
NoneOpen == \A k \in checks : ~Open(k)
Failed == {k \in checks : k.status = "failed"}
Spared == Failures <= MaxFixes + continues
FixesSpent == Failures <= MaxFixes + 1 + continues
OpenFits ==
    \A k \in checks : Open(k) => /\ feature = "ready_to_merge" /\ k.commit = branch.approved
                                 /\ \A x \in checks : x.commit = k.commit => x.attempt <= k.attempt
ReadyFits == run.why = "ready" /\ feature = "ready_to_merge" /\ steps.preview => CheckStatus(branch.approved) = "passed"
FixesFit ==
    /\ feature \in {"implementing", "reviewing"} => Spared
    /\ feature = "ready_to_merge" => (~NoneOpen \/ CheckStatus(branch.approved) \in {"none", "passed"} => Spared)
    /\ FixesSpent
Checked ==
    /\ IsFiniteSet(checks) /\ continues \in Nat
    /\ ~steps.preview => checks = {}
    /\ run.status \in RunEnds => feature = "completed"
    /\ OpenFits /\ ReadyFits /\ FixesFit

LEMMA FailuresIs == ASSUME IsFiniteSet(checks) PROVE IsFiniteSet(Failed) /\ Failures = Cardinality(Failed) /\ Failures \in Nat
<1>1. Failed \subseteq checks
  BY DEF Failed
<1>2. IsFiniteSet(Failed)
  BY <1>1, FS_Subset
<1>3. Failures = Cardinality(Failed)
  BY DEF Failures, Failed
<1> QED
  BY <1>2, <1>3, FS_CardinalityType

LEMMA StaysSpared ==
    ASSUME Failures' = Failures, Failures \in Nat, continues \in Nat, continues' \in {continues, continues + 1}
    PROVE  /\ Spared => Spared'
           /\ FixesSpent => FixesSpent' /\ (continues' = continues + 1 => Spared')
<1>1. PICK d \in Nat : d = continues'
  OBVIOUS
<1>2. PICK f \in Nat : f = Failures /\ f = Failures'
  OBVIOUS
<1>3. PICK c \in Nat : c = continues
  OBVIOUS
<1>4. PICK m \in Nat : m = MaxFixes
  BY RoundAssumption
<1>5. d \in {c, c + 1}
  BY <1>1, <1>3
<1>6. /\ f <= m + c => f <= m + d
      /\ f <= m + 1 + c => f <= m + 1 + d /\ (d = c + 1 => f <= m + d)
  BY <1>5
<1>7. /\ (Spared <=> f <= m + c) /\ (Spared' <=> f <= m + d)
      /\ (FixesSpent <=> f <= m + 1 + c) /\ (FixesSpent' <=> f <= m + 1 + d)
  BY <1>1, <1>2, <1>3, <1>4 DEF Spared, FixesSpent
<1> QED
  BY <1>1, <1>3, <1>6, <1>7

\* The last check of a commit is what the commit's status is of.
LEMMA LastCheckIs ==
    ASSUME checks \subseteq CheckType, ChecksFit, NEW k \in checks,
           \A x \in checks : x.commit = k.commit => x.attempt <= k.attempt
    PROVE  LatestCheck(k.commit) = k /\ CheckStatus(k.commit) = k.status
<1> DEFINE c == k.commit
           last == LatestCheck(c)
<1>1. k \in Of(c)
  BY DEF Of
<1>2. last \in Of(c) /\ \A x \in Of(c) : x.attempt <= last.attempt
  BY <1>1, LatestIsLatest
<1> HIDE DEF last
<1>3. last \in checks /\ last.commit = c /\ k.attempt <= last.attempt /\ last.attempt <= k.attempt
  BY <1>1, <1>2 DEF Of
<1>4. last.attempt \in Nat /\ k.attempt \in Nat
  BY <1>3 DEF CheckType
<1>5. last.attempt = k.attempt
  BY <1>3, <1>4
<1>6. last = k
  BY <1>3, <1>5 DEF ChecksFit
<1> QED
  BY <1>1, <1>6 DEF last, CheckStatus

LEMMA NothingOpen ==
    ASSUME checks \subseteq CheckType, ChecksFit, OpenFits,
           feature # "ready_to_merge" \/ CheckStatus(branch.approved) \notin {"pending", "late"} \/ checks = {}
    PROVE  NoneOpen
<1> SUFFICES ASSUME NEW k \in checks, Open(k) PROVE FALSE
  BY DEF NoneOpen
<1>1. feature = "ready_to_merge" /\ k.commit = branch.approved
  BY DEF OpenFits
<1>2. CheckStatus(k.commit) = k.status
  BY LastCheckIs DEF OpenFits
<1> QED
  BY <1>1, <1>2 DEF Open

\* Steps that leave the checks alone.
LEMMA SameChecks ==
    ASSUME Checked, UNCHANGED <<steps, feature, checks>>, branch'.approved = branch.approved,
           run'.why = run.why \/ run'.why # "ready", run'.status \in RunEnds => run.status \in RunEnds,
           continues' \in {continues, continues + 1}
    PROVE  Checked'
<1>1. Failures' = Failures /\ Failures \in Nat /\ continues \in Nat
  BY FailuresIs DEF Checked, Failures
<1>2. (Spared => Spared') /\ (FixesSpent => FixesSpent')
  BY <1>1, StaysSpared
<1>3. CheckStatus(branch.approved)' = CheckStatus(branch.approved) /\ NoneOpen' = NoneOpen
  BY DEF CheckStatus, LatestCheck, Of, NoneOpen, Open
<1>4. OpenFits' /\ ReadyFits'
  BY <1>3 DEF Checked, OpenFits, Open, ReadyFits
<1>5. FixesFit'
  BY <1>2, <1>3 DEF Checked, FixesFit
<1>6. continues' \in Nat
  BY <1>1
<1> QED
  BY <1>4, <1>5, <1>6 DEF Checked

LEMMA AwayFromGate ==
    ASSUME IInv, Checked, UNCHANGED <<steps, checks>>, NoneOpen, feature' \in {"implementing", "reviewing"},
           run'.status \notin RunEnds, continues' \in {continues, continues + 1},
           Spared \/ continues' = continues + 1
    PROVE  Checked'
<1>1. Failures' = Failures /\ Failures \in Nat /\ continues \in Nat
  BY FailuresIs DEF Checked, Failures
<1>2. FixesSpent
  BY DEF Checked, FixesFit
<1>3. Spared' /\ FixesSpent' /\ continues' \in Nat
  BY <1>1, <1>2, StaysSpared
<1>4. FixesFit'
  BY <1>3 DEF FixesFit
<1>5. OpenFits' /\ ReadyFits'
  BY DEF NoneOpen, Open, OpenFits, ReadyFits
<1> QED
  BY <1>3, <1>4, <1>5 DEF Checked

LEMMA RequestedFails ==
    ASSUME IsFiniteSet(checks), checks \subseteq CheckType, ChecksFit, NEW c, checks' = Requested(c)
    PROVE  IsFiniteSet(checks') /\ Failures' = Failures
<1> DEFINE late == LatestCheck(c)
           expired == [late EXCEPT !.status = "expired"]
           next == Check(c, late.attempt + 1, "pending")
           new == Check(c, 1, "pending")
<1>1. CASE CheckStatus(c) = "none"
  <2>1. checks' = checks \cup {new} /\ new.status = "pending"
    BY <1>1 DEF Requested, Check
  <2> HIDE DEF new
  <2>2. IsFiniteSet(checks')
    BY <2>1, FS_AddElement
  <2>3. Failed' = Failed
    BY <2>1 DEF Failed
  <2> QED
    BY <2>2, <2>3 DEF Failures, Failed
<1>2. CASE CheckStatus(c) = "late"
  <2>1. checks' = (checks \ {late}) \cup {expired, next}
    BY <1>2 DEF Requested
  <2>2. Of(c) # {} /\ late.status = "late"
    BY <1>2 DEF CheckStatus
  <2>3. late \in checks
    BY <2>2, LatestIsLatest DEF Of
  <2>4. expired.status = "expired" /\ next.status = "pending"
    BY <2>3 DEF Check, CheckType
  <2> HIDE DEF late, expired, next
  <2>5. IsFiniteSet(checks')
    <3>1. IsFiniteSet(checks \ {late})
      BY FS_Subset
    <3>2. IsFiniteSet((checks \ {late}) \cup {expired})
      BY <3>1, FS_AddElement
    <3>3. IsFiniteSet(((checks \ {late}) \cup {expired}) \cup {next})
      BY <3>2, FS_AddElement
    <3>4. checks' = ((checks \ {late}) \cup {expired}) \cup {next}
      BY <2>1
    <3> QED
      BY <3>3, <3>4
  <2>6. Failed' = Failed
    BY <2>1, <2>2, <2>4 DEF Failed
  <2> QED
    BY <2>5, <2>6 DEF Failures, Failed
<1>3. CASE CheckStatus(c) \notin {"none", "late"}
  BY <1>3 DEF Requested, Failures
<1> QED
  BY <1>1, <1>2, <1>3

\* What a wait says of the run.
LEMMA WaitsSay ==
    ASSUME NEW row, RunOK(row), row.status \notin RunEnds, NEW kind \in WaitKinds, NEW why \in Whys, Waits(row, kind, why)
    PROVE  run'.status = "waiting" /\ run'.why = why /\ run'.status \notin RunEnds
<1> DEFINE t == TransitionRun([run |-> row, ivs |-> <<>>], "waiting", kind).run
<1>1. "waiting" \in RunStatuses /\ kind \in WaitKinds \cup {"none"} /\ "waiting" \notin RunEnds
  BY DEF RunStatuses, RunEnds
<1>2. run' = Moved(row, "waiting", kind, why) /\ run'.status = "waiting"
  BY <1>1, MovedOK DEF Waits
<1>3. run' = [t EXCEPT !.why = why]
  BY <1>2 DEF Moved
<1>4. "why" \in DOMAIN t
  BY DEF RunOK, RunType, TransitionRun
<1> HIDE DEF t
<1> QED
  BY <1>1, <1>2, <1>3, <1>4

\* The gate is reached with a commit that nothing is known of, or one whose checks fit.
LEMMA AtTheGateChecks ==
    ASSUME IInv, Checked, NEW row, RunOK(row), row.status \notin RunEnds, NEW c \in Nat, AtTheGate(row, c),
           UNCHANGED steps, feature' = "ready_to_merge", branch'.approved = c,
           \A k \in checks : Open(k) => /\ k.commit = c
                                        /\ \A x \in checks : x.commit = k.commit => x.attempt <= k.attempt,
           ~NoneOpen \/ CheckStatus(c) \in {"none", "passed"} => Spared,
           continues' \in {continues, continues + 1}
    PROVE  Checked'
<1>1. Failures \in Nat /\ continues \in Nat /\ FixesSpent
      /\ IsFiniteSet(checks) /\ checks \subseteq CheckType /\ ChecksFit
  BY FailuresIs DEF Checked, FixesFit, IInv, Typed
<1>0. continues' \in Nat /\ (Failures' = Failures => (Spared => Spared') /\ FixesSpent')
  BY <1>1, StaysSpared
<1>2. /\ {"blocker", "merge_gate"} \subseteq WaitKinds /\ {"preview_failed", "preview", "ready"} \subseteq Whys
      /\ "waiting" \in RunStatuses
  BY DEF WaitKinds, Whys, RunStatuses
<1>3. ASSUME NEW kind \in WaitKinds, NEW why \in Whys, Waits(row, kind, why)
      PROVE  run'.status \notin RunEnds /\ run'.why = why
  BY <1>3, WaitsSay
<1>4. CASE UNCHANGED checks /\ run'.status \notin RunEnds /\ (run'.why # "ready" \/ ~steps.preview \/ CheckStatus(c) = "passed")
  <2>1. CheckStatus(branch.approved)' = CheckStatus(c) /\ NoneOpen' = NoneOpen /\ Failures' = Failures
    BY <1>4 DEF CheckStatus, LatestCheck, Of, NoneOpen, Open, Failures
  <2>2. OpenFits' /\ ReadyFits'
    BY <1>4, <2>1 DEF OpenFits, Open, ReadyFits
  <2>3. FixesFit'
    BY <1>0, <2>1 DEF FixesFit
  <2> QED
    BY <1>0, <1>4, <2>2, <2>3 DEF Checked
<1>5. CASE steps.preview /\ CheckStatus(c) \notin {"passed", "failed"} /\ Waits(row, "merge_gate", "preview") /\ checks' = Requested(c)
  <2>1. run'.status \notin RunEnds /\ run'.why # "ready"
    BY <1>2, <1>3, <1>5
  <2>2. IsFiniteSet(checks') /\ Failures' = Failures
    BY <1>1, <1>5, RequestedFails
  <2>3. CASE checks' = checks
    BY <1>4, <2>1, <2>3
  <2>4. CASE CheckStatus(c) = "none"
    <3> DEFINE new == Check(c, 1, "pending")
    <3>1. checks' = checks \cup {new} /\ new.commit = c
      BY <1>5, <2>4 DEF Requested, Check
    <3>2. Of(c) = {}
      <4> SUFFICES ASSUME Of(c) # {} PROVE FALSE
        OBVIOUS
      <4>1. LatestCheck(c) \in checks /\ CheckStatus(c) = LatestCheck(c).status
        BY <1>1, LatestIsLatest DEF Of, CheckStatus
      <4> QED
        BY <1>1, <2>4, <4>1 DEF CheckType
    <3>3. \A x \in checks : x.commit # c
      BY <3>2 DEF Of
    <3> HIDE DEF new
    <3>4. OpenFits'
      <4>1. \A k \in checks : ~Open(k)
        BY <3>3
      <4>2. \A k \in checks' : Open(k)' => k = new
        BY <3>1, <4>1 DEF Open
      <4>3. \A x \in checks' : x.commit = c => x = new
        BY <3>1, <3>3
      <4>4. new.attempt <= new.attempt
        BY DEF new, Check
      <4> QED
        BY <3>1, <4>2, <4>3, <4>4 DEF OpenFits
    <3>5. Spared'
      BY <1>0, <2>2, <2>4
    <3> QED
      BY <1>0, <1>5, <2>1, <2>2, <3>4, <3>5 DEF Checked, FixesFit, ReadyFits
  <2>5. CASE CheckStatus(c) = "late"
    <3> DEFINE late == LatestCheck(c)
               expired == [late EXCEPT !.status = "expired"]
               next == Check(c, late.attempt + 1, "pending")
    <3>1. checks' = (checks \ {late}) \cup {expired, next}
      BY <1>5, <2>5 DEF Requested
    <3>2. Of(c) # {} /\ late.status = "late"
      BY <2>5 DEF CheckStatus
    <3>3. late \in checks /\ late.commit = c /\ \A x \in checks : x.commit = c => x.attempt <= late.attempt
      BY <1>1, <3>2, LatestIsLatest DEF Of
    <3>4. late.attempt \in Nat /\ late \in CheckType /\ \A x \in checks : x.attempt \in Nat
      BY <1>1, <3>3 DEF CheckType
    <3>5. /\ expired.status = "expired" /\ expired.attempt = late.attempt
          /\ next.commit = c /\ next.attempt = late.attempt + 1 /\ next.status = "pending"
      BY <3>4 DEF Check, CheckType
    <3> HIDE DEF late, expired, next
    <3>6. OpenFits'
      <4>1. \A k \in checks : Open(k) => k = late
        <5> SUFFICES ASSUME NEW k \in checks, Open(k) PROVE k = late
          OBVIOUS
        <5>1. k.commit = c /\ k.attempt >= late.attempt /\ late.attempt >= k.attempt
          BY <3>3
        <5> QED
          BY <1>1, <3>3, <3>4, <5>1 DEF ChecksFit
      <4>2. \A k \in checks' : Open(k)' => k = next
        BY <3>1, <3>5, <4>1 DEF Open
      <4>3. \A x \in checks' : x.commit = c => x.attempt <= next.attempt
        BY <3>1, <3>3, <3>4, <3>5
      <4> QED
        BY <3>5, <4>2, <4>3 DEF OpenFits
    <3>7. Spared'
      <4>1. ~NoneOpen
        BY <3>2, <3>3 DEF NoneOpen, Open
      <4> QED
        BY <1>0, <2>2, <4>1
    <3> QED
      BY <1>0, <1>5, <2>1, <2>2, <3>6, <3>7 DEF Checked, FixesFit, ReadyFits
  <2> QED
    BY <1>5, <2>3, <2>4, <2>5 DEF Requested
<1>6. CASE steps.preview /\ CheckStatus(c) = "failed" /\ Waits(row, "blocker", "preview_failed") /\ UNCHANGED checks
  BY <1>2, <1>3, <1>4, <1>6
<1>7. CASE (steps.preview => CheckStatus(c) = "passed") /\ Waits(row, "merge_gate", "ready") /\ UNCHANGED checks
  BY <1>2, <1>3, <1>4, <1>7
<1> QED
  BY <1>5, <1>6, <1>7 DEF AtTheGate

LEMMA RunningSays ==
    ASSUME NEW row, RunOK(row)
    PROVE  /\ Moved(row, "running", "none", "none").status = "running"
           /\ Moved(row, "running", "none", "none").why = "none"
<1> DEFINE t == TransitionRun([run |-> row, ivs |-> <<>>], "running", "none").run
<1>1. "running" \in RunStatuses /\ "none" \in WaitKinds \cup {"none"} /\ "none" \in Whys
  BY DEF RunStatuses, Whys
<1>2. Moved(row, "running", "none", "none").status = "running"
  BY <1>1, MovedOK
<1>3. Moved(row, "running", "none", "none") = [t EXCEPT !.why = "none"]
  BY DEF Moved
<1>4. "why" \in DOMAIN t
  BY DEF RunOK, RunType, TransitionRun
<1> HIDE DEF t
<1> QED
  BY <1>2, <1>3, <1>4

\* A handler's row is the old one, or it says something else than that the order is ready.
RowMoves == run' = run \/ Blocks \/ Runs(run)

LEMMA RowSays ==
    ASSUME RunOK(run), RowMoves
    PROVE  /\ run'.why = run.why \/ run'.why # "ready"
           /\ run'.status \in RunEnds => run.status \in RunEnds
<1>1. "running" \notin RunEnds
  BY DEF RunEnds
<1>2. CASE run' = run
  BY <1>2
<1>3. CASE Runs(run)
  BY <1>1, <1>3, RunningSays DEF Runs
<1>4. CASE Blocks /\ run' # run
  <2>1. PICK kind \in WaitKinds, why \in Whys \ {"ready"} : Waits(run, kind, why)
    BY <1>4 DEF Blocks, waitRun
  <2>2. run.status \notin RunEnds
    BY <1>4, <2>1 DEF Waits
  <2> QED
    BY <2>1, <2>2, WaitsSay
<1> QED
  BY <1>2, <1>3, <1>4 DEF RowMoves

\* Before the merge gate no check is open, and a fix that is under way is within the limit.
LEMMA BeforeTheGate ==
    ASSUME Checked, feature \in {"implementing", "reviewing"}
    PROVE  NoneOpen /\ Spared /\ run.status \notin RunEnds
  BY DEF Checked, OpenFits, NoneOpen, FixesFit

\* A step of a turn, before the gate and after.
LEMMA TurnKeepsChecks ==
    ASSUME IInv, Checked, UNCHANGED <<steps, checks, continues>>, RowMoves,
           feature \in {"implementing", "reviewing"}, feature' \in {feature, "reviewing"}
    PROVE  Checked'
<1>1. NoneOpen /\ Spared /\ run.status \notin RunEnds
  BY BeforeTheGate
<1>2. run'.status \notin RunEnds
  BY <1>1, RowSays DEF IInv, Typed
<1> QED
  BY <1>1, <1>2, AwayFromGate

LEMMA RestKeepsChecks ==
    ASSUME IInv, Checked, UNCHANGED <<steps, feature, checks, continues>>, RowMoves,
           branch'.approved = branch.approved
    PROVE  Checked'
  BY SameChecks, RowSays DEF IInv, Typed

-----------------------------------------------------------------------------
LEMMA GateKeepsChecks ==
    ASSUME IInv, Checked, feature \in {"implementing", "reviewing"}, UNCHANGED <<steps, continues>>,
           EnterMergeGate("lead", branch.head)
    PROVE  Checked'
<1> DEFINE c == branch.head
<1>1. /\ NoneOpen /\ Spared /\ run.status \notin RunEnds /\ RunOK(run) /\ c \in Nat
      /\ branch \in BranchType
  BY BeforeTheGate DEF IInv, Typed, BranchType
<1>2. branch' = [branch EXCEPT !.approved = c] /\ feature' = "ready_to_merge"
  BY DEF EnterMergeGate, Tip
<1>3. branch'.approved = c
  BY <1>1, <1>2 DEF BranchType
<1>4. CASE AtTheGate(run, c)
  <2>1. \A k \in checks : ~Open(k)
    BY <1>1 DEF NoneOpen
  <2> HIDE DEF c
  <2> QED
    BY <1>1, <1>2, <1>3, <1>4, <2>1, AtTheGateChecks
<1>5. CASE waitRun("phase_checkpoint", "boundary") /\ UNCHANGED checks
  <2>1. run'.status \notin RunEnds /\ run'.why = "boundary"
    <3>1. "phase_checkpoint" \in WaitKinds /\ "boundary" \in Whys
      BY DEF WaitKinds, Whys
    <3> QED
      BY <1>1, <1>5, <3>1, WaitsSay DEF waitRun
  <2>2. Failures' = Failures /\ Failures \in Nat /\ continues \in Nat /\ FixesSpent
    BY <1>5, FailuresIs DEF Checked, Failures, FixesFit
  <2>3. Spared' /\ FixesSpent'
    BY <1>1, <2>2, StaysSpared
  <2>4. NoneOpen'
    BY <1>1, <1>5 DEF NoneOpen, Open
  <2>5. OpenFits' /\ ReadyFits' /\ FixesFit'
    BY <2>1, <2>3, <2>4 DEF NoneOpen, OpenFits, ReadyFits, FixesFit
  <2> QED
    BY <1>5, <2>1, <2>5 DEF Checked
<1> QED
  BY <1>4, <1>5 DEF EnterMergeGate, Tip

LEMMA VerifyKeepsChecks ==
    ASSUME IInv, Owned, Checked, NEW r \in Roles, Verify(r)
    PROVE  Checked'
<1>1. pc[r].at = "verify" /\ UNCHANGED <<steps, continues>>
  BY VerifyIs DEF bounds
<1>2. feature \in {"implementing", "reviewing"}
  BY <1>1 DEF IInv, FeatureFits, Typed
<1>3. Outcome(r)
  BY VerifyOutcomes DEF Owned
<1>4. CASE UNCHANGED checks /\ Done(r) /\ Blocks /\ UNCHANGED feature
  BY <1>1, <1>2, <1>4, TurnKeepsChecks DEF RowMoves
<1>5. CASE UNCHANGED checks /\ \E to \in Roles : Starts(r, to)
  <2>1. run' = run /\ feature' \in {feature, "reviewing"}
    BY <1>5 DEF Starts, Next1
  <2> QED
    BY <1>1, <1>2, <1>5, <2>1, TurnKeepsChecks DEF RowMoves
<1>6. CASE UNCHANGED checks /\ Joins(r)
  BY <1>1, <1>2, <1>6, TurnKeepsChecks DEF RowMoves, Joins
<1>7. CASE EnterMergeGate("lead", branch.head)
  BY <1>1, <1>2, <1>7, GateKeepsChecks
<1> QED
  BY <1>3, <1>4, <1>5, <1>6, <1>7 DEF Outcome

LEMMA TurnStepsKeepChecks ==
    ASSUME IInv, Checked, NEW r \in Roles
    PROVE  /\ TurnEnds(r) => Checked'
           /\ Admit(r) => Checked'
           /\ Join(r) => Checked'
           /\ Refuse(r) => Checked'
<1>1. CASE TurnEnds(r)
  <2>1. PICK res \in Results(r), recorded \in Recorded : EndTurn(r, res, recorded)
    BY <1>1 DEF TurnEnds
  <2>2. UNCHANGED <<steps, run, feature, checks, continues>>
    BY <2>1 DEF EndTurn
  <2>3. branch'.approved = branch.approved
    <3>1. branch' = [branch EXCEPT !.head = IF res.commit > @ THEN res.commit ELSE @]
      BY <2>1 DEF EndTurn
    <3> QED
      BY <3>1 DEF IInv, Typed, BranchType
  <2> QED
    BY <2>2, <2>3, RestKeepsChecks DEF RowMoves
<1>2. CASE Admit(r)
  <2>1. UNCHANGED <<steps, feature, branch, checks, continues>>
    BY <1>2 DEF Admit, bounds
  <2>2. Runs(run) \/ RequireReview(r)
    BY <1>2 DEF Admit
  <2> QED
    BY <2>1, <2>2, HandlersWait, RestKeepsChecks DEF RowMoves
<1>3. CASE Join(r)
  <2>1. /\ UNCHANGED <<steps, branch, checks, continues>> /\ TryStartAcceptanceReview(r)
        /\ feature \in {"implementing", "reviewing"}
    BY <1>3 DEF Join, bounds, IInv, FeatureFits, Typed
  <2>2. feature' \in {feature, "reviewing"} /\ RowMoves
    BY <2>1, HandlersWait DEF TryStartAcceptanceReview, RowMoves, Next1
  <2> QED
    BY <2>1, <2>2, TurnKeepsChecks
<1>4. CASE Refuse(r)
  <2>1. UNCHANGED <<steps, feature, branch, checks, continues>> /\ RequireReview(r)
    BY <1>4 DEF Refuse
  <2> QED
    BY <2>1, HandlersWait, RestKeepsChecks DEF RowMoves
<1> QED
  BY <1>1, <1>2, <1>3, <1>4

\* The gate again: a failed check goes to the lead only when its turn is within the limit.
LEMMA GateAgainKeepsChecks ==
    ASSUME IInv, Checked, NEW row, RunOK(row), row.status \in RunEnds => run.status \in RunEnds,
           NEW chosen \in BOOLEAN, RecoverAtGate(row, chosen), UNCHANGED steps,
           continues' = IF chosen THEN continues + 1 ELSE continues
    PROVE  Checked'
<1>1. /\ feature = "ready_to_merge" /\ row.status \notin RunEnds /\ continues' \in {continues, continues + 1}
      /\ checks \subseteq CheckType /\ ChecksFit /\ OpenFits /\ FixesFit /\ branch \in BranchType
  BY DEF RecoverAtGate, Checked, IInv, Typed
<1>2. CASE steps.preview /\ CheckStatus(branch.approved) = "failed" /\ PreviewCheckFailed(row, chosen) /\ UNCHANGED checks
  <2>1. NoneOpen
    BY <1>1, <1>2, NothingOpen
  <2>2. CASE MayFix(chosen)
    <3>1. feature' = "implementing" /\ Runs(row)
      BY <1>2, <2>2 DEF PreviewCheckFailed
    <3>2. run'.status \notin RunEnds
      BY <3>1, RunningSays DEF Runs, RunEnds
    <3>3. Spared \/ continues' = continues + 1
      <4>1. CASE chosen
        BY <4>1
      <4>2. CASE ~chosen
        <5>1. PICK f \in Nat : f = Failures
          BY FailuresIs DEF Checked
        <5>2. PICK m \in Nat : m = MaxFixes
          BY RoundAssumption
        <5>3. PICK c \in Nat : c = continues
          BY DEF Checked
        <5>4. f <= m
          BY <2>2, <4>2, <5>1, <5>2 DEF MayFix
        <5>5. f <= m + c
          BY <5>4
        <5> QED
          BY <5>1, <5>2, <5>3, <5>5 DEF Spared
      <4> QED
        BY <4>1, <4>2
    <3> QED
      BY <1>1, <1>2, <2>1, <3>1, <3>2, <3>3, AwayFromGate
  <2>3. CASE ~MayFix(chosen)
    <3>1. Waits(row, "blocker", "preview_failed") /\ UNCHANGED <<feature, branch>>
      BY <1>2, <2>3 DEF PreviewCheckFailed
    <3>2. "blocker" \in WaitKinds /\ "preview_failed" \in Whys
      BY DEF WaitKinds, Whys
    <3>3. run'.why = "preview_failed" /\ run'.status \notin RunEnds
      BY <1>1, <3>1, <3>2, WaitsSay
    <3> QED
      BY <1>1, <1>2, <3>1, <3>3, SameChecks
  <2> QED
    BY <2>2, <2>3
<1>3. CASE AtTheGate(row, branch.approved) /\ UNCHANGED <<feature, branch>>
  <2> DEFINE c == branch.approved
  <2>1. /\ c \in Nat /\ branch'.approved = c /\ feature' = "ready_to_merge"
        /\ ~NoneOpen \/ CheckStatus(c) \in {"none", "passed"} => Spared
        /\ \A k \in checks : Open(k) => /\ k.commit = c
                                        /\ \A x \in checks : x.commit = k.commit => x.attempt <= k.attempt
    BY <1>1, <1>3 DEF BranchType, FixesFit, OpenFits
  <2> HIDE DEF c
  <2>2. AtTheGate(row, c)
    BY <1>3 DEF c
  <2> QED
    BY <1>1, <2>1, <2>2, AtTheGateChecks
<1> QED
  BY <1>2, <1>3 DEF RecoverAtGate

LEMMA RecoverKeepsChecks ==
    ASSUME IInv, Checked, NEW row, RunOK(row), row.status \in RunEnds => run.status \in RunEnds,
           row.why = run.why \/ row.why # "ready",
           NEW chosen \in BOOLEAN, Recover(row, chosen), UNCHANGED steps,
           continues' = IF chosen THEN continues + 1 ELSE continues
    PROVE  Checked'
<1>1. CASE run' = row /\ UNCHANGED <<feature, branch, checks>>
  BY <1>1, SameChecks
<1>2. CASE RecoverAtGate(row, chosen)
  BY <1>2, GateAgainKeepsChecks
<1>3. RecoverIdle(chosen) => UNCHANGED <<feature, branch, checks>>
  BY DEF RecoverIdle, Answer
<1> QED
  BY <1>1, <1>2, <1>3 DEF Recover

LEMMA PauseStepsKeepChecks ==
    ASSUME IInv, Checked, Pause \/ Resume \/ Continue \/ Push \/ Crash \/ Restart
    PROVE  Checked'
<1>1. /\ RunOK(run) /\ RunOK(Unpaused(run))
      /\ Unpaused(run).status = run.status /\ Paused(run).status = run.status
      /\ Unpaused(run).why = run.why /\ Paused(run).why = run.why
  BY PausedOK DEF IInv, Typed, RunOK, RunType, Unpaused, Paused
<1>2. CASE Pause
  <2>1. run' = Paused(run) /\ UNCHANGED <<steps, feature, branch, checks, continues>>
    BY <1>2 DEF Pause
  <2> QED
    BY <1>1, <2>1, SameChecks
<1>3. CASE Resume
  <2>1. UNCHANGED <<steps, continues>>
    BY <1>3 DEF Resume, bounds
  <2>2. CASE Recover(Unpaused(run), FALSE)
    BY <1>1, <2>1, <2>2, RecoverKeepsChecks
  <2>3. CASE run' = Unpaused(run) /\ UNCHANGED <<feature, branch, checks>>
    BY <1>1, <2>1, <2>3, SameChecks
  <2> QED
    BY <1>3, <2>2, <2>3 DEF Resume
<1>4. CASE Continue
  <2> DEFINE row == Moved(run, "running", "none", "none")
  <2>1. RunOK(row) /\ row.status \notin RunEnds /\ row.why = "none"
    BY <1>1, MovedOK, RunningSays DEF RunStatuses, Whys, RunEnds
  <2>2. Recover(row, TRUE) /\ UNCHANGED steps /\ continues' = continues + 1
    BY <1>4 DEF Continue
  <2> HIDE DEF row
  <2> QED
    BY <2>1, <2>2, RecoverKeepsChecks
<1>5. CASE Push
  <2>1. branch'.approved = branch.approved
    BY <1>5 DEF Push, IInv, Typed, BranchType
  <2> QED
    BY <1>5, <2>1, RestKeepsChecks DEF Push, RowMoves
<1>6. CASE Crash
  BY <1>6, RestKeepsChecks DEF Crash, RowMoves
<1>7. CASE Restart
  <2>1. UNCHANGED <<steps, continues>>
    BY <1>7 DEF Restart, bounds
  <2>2. CASE run' = run /\ UNCHANGED <<feature, branch, checks>>
    BY <2>1, <2>2, RestKeepsChecks DEF RowMoves
  <2>3. CASE waitRun("phase_checkpoint", "boundary") /\ UNCHANGED <<feature, branch, checks>>
    BY <2>1, <2>3, HandlersWait, RestKeepsChecks DEF RowMoves
  <2>4. CASE run.status = "running" /\ run' = Moved(run, "waiting", "blocker", "refused") /\ UNCHANGED <<feature, branch, checks>>
    <3>1. "blocker" \in WaitKinds /\ "refused" \in Whys \ {"ready"}
      BY DEF WaitKinds, Whys
    <3>2. Blocks
      BY <2>4, <3>1 DEF Blocks, waitRun, Waits, RunEnds
    <3> QED
      BY <2>1, <2>4, <3>2, RestKeepsChecks DEF RowMoves
  <2>5. CASE Recover(run, FALSE)
    BY <1>1, <2>1, <2>5, RecoverKeepsChecks
  <2> QED
    BY <1>7, <2>2, <2>3, <2>4, <2>5 DEF Restart
<1> QED
  BY <1>2, <1>3, <1>4, <1>5, <1>6, <1>7

LEMMA UpdateAndMergeKeepChecks ==
    ASSUME IInv, Checked, StartBaseUpdate \/ Merge
    PROVE  Checked'
<1>1. /\ feature = "ready_to_merge" /\ UNCHANGED <<steps, checks, continues>>
      /\ checks \subseteq CheckType /\ ChecksFit /\ OpenFits /\ FixesFit /\ ReadyFits /\ RunOK(run)
  BY DEF StartBaseUpdate, Merge, bounds, Checked, IInv, Typed
<1>2. CASE StartBaseUpdate
  <2>1. /\ run' = run /\ run.why = "ready" /\ run.status \notin RunEnds /\ feature' \in {"implementing", "reviewing"}
    BY <1>2 DEF StartBaseUpdate, MayUpdate
  <2>2. steps.preview => CheckStatus(branch.approved) = "passed"
    BY <1>1, <2>1 DEF ReadyFits
  <2>3. ~steps.preview => checks = {} /\ CheckStatus(branch.approved) = "none"
    BY DEF Checked, CheckStatus, Of
  <2>4. Spared
    BY <1>1, <2>2, <2>3 DEF FixesFit
  <2>5. NoneOpen
    BY <1>1, <2>2, <2>3, NothingOpen
  <2> QED
    BY <1>1, <2>1, <2>4, <2>5, AwayFromGate
<1>3. CASE Merge
  <2>1. feature' = "completed" /\ (~steps.preview => checks = {}) /\ (steps.preview => CheckStatus(branch.approved) = "passed")
    BY <1>3 DEF Merge, MayMerge, Checked
  <2>2. NoneOpen
    BY <1>1, <2>1, NothingOpen
  <2>3. Failures' = Failures /\ Failures \in Nat /\ continues \in Nat /\ FixesSpent
    BY <1>1, FailuresIs DEF Checked, Failures, FixesFit
  <2>4. FixesSpent'
    BY <1>1, <2>3, StaysSpared
  <2>5. OpenFits' /\ ReadyFits' /\ FixesFit'
    BY <1>1, <2>1, <2>2, <2>4 DEF NoneOpen, Open, OpenFits, ReadyFits, FixesFit
  <2> QED
    BY <1>1, <2>1, <2>5 DEF Checked
<1> QED
  BY <1>2, <1>3

LEMMA CompletionKeepsChecks ==
    ASSUME IInv, Checked, NEW k \in told, PreviewCheckCompleted(k)
    PROVE  Checked'
<1>1. UNCHANGED <<steps, continues>> /\ RunOK(run)
  BY DEF PreviewCheckCompleted, bounds, IInv, Typed
<1>2. CASE RecoverAtGate(run, FALSE)
  BY <1>1, <1>2, GateAgainKeepsChecks
<1>3. CASE UNCHANGED <<run, feature, branch, checks>>
  BY <1>1, <1>3, RestKeepsChecks DEF RowMoves
<1> QED
  BY <1>2, <1>3 DEF PreviewCheckCompleted

\* The last check of a commit gives the commit's status, before a step and after it.
LastKnown ==
    checks \subseteq CheckType /\ ChecksFit =>
      \A k \in checks : (\A x \in checks : x.commit = k.commit => x.attempt <= k.attempt)
                           => CheckStatus(k.commit) = k.status

LEMMA LastStaysKnown == LastKnown /\ LastKnown'
<1>1. LastKnown
  BY LastCheckIs DEF LastKnown
<1> QED
  BY <1>1, PTL

\* There is at most one open check, which a report or the deadline is about.
LEMMA OneIsOpen ==
    ASSUME IInv, Checked, NEW k \in checks, Open(k)
    PROVE  /\ feature = "ready_to_merge" /\ k.commit = branch.approved /\ ~NoneOpen /\ Spared
           /\ \A x \in checks : x.commit = k.commit => x.attempt <= k.attempt
           /\ \A x \in checks : Open(x) => x = k
           /\ CheckStatus(branch.approved) = k.status
<1>1. checks \subseteq CheckType /\ ChecksFit /\ OpenFits /\ FixesFit
  BY DEF IInv, Typed, Checked
<1>2. /\ feature = "ready_to_merge" /\ k.commit = branch.approved
      /\ \A x \in checks : x.commit = k.commit => x.attempt <= k.attempt
  BY <1>1 DEF OpenFits
<1>3. ~NoneOpen /\ Spared
  BY <1>1, <1>2 DEF NoneOpen, FixesFit
<1>4. ASSUME NEW x \in checks, Open(x) PROVE x = k
  <2>1. x.commit = k.commit /\ x.attempt <= k.attempt /\ k.attempt <= x.attempt
    BY <1>1, <1>2, <1>4 DEF OpenFits
  <2>2. x.attempt \in Nat /\ k.attempt \in Nat
    BY <1>1 DEF CheckType
  <2>3. x.attempt = k.attempt
    BY <2>1, <2>2
  <2> QED
    BY <1>1, <2>1, <2>3 DEF ChecksFit
<1>5. CheckStatus(k.commit) = k.status
  BY <1>1, <1>2, LastCheckIs
<1> QED
  BY <1>2, <1>3, <1>4, <1>5

\* How many checks failed after one is reported.
LEMMA ReportedFailures ==
    ASSUME IsFiniteSet(checks), NEW k \in checks, NEW done, k.status # "failed", checks' = Restated(k, done)
    PROVE  /\ IsFiniteSet(checks')
           /\ done.status # "failed" => Failures' = Failures
           /\ Failures' = Failures \/ Failures' = Failures + 1
<1>1. IsFiniteSet(checks \ {k}) /\ IsFiniteSet(checks')
  <2>1. IsFiniteSet(checks \ {k})
    BY FS_Subset
  <2>2. checks' = (checks \ {k}) \cup {done}
    BY DEF Restated
  <2> QED
    BY <2>1, <2>2, FS_AddElement
<1>2. IsFiniteSet(Failed) /\ Failures = Cardinality(Failed) /\ Failures' = Cardinality(Failed')
  BY FailuresIs DEF Failures, Failed
<1>3. CASE done.status # "failed"
  <2>1. Failed' = Failed
    BY <1>3 DEF Failed, Restated
  <2> QED
    BY <1>1, <1>2, <1>3, <2>1
<1>4. CASE done.status = "failed"
  <2>1. Failed' = Failed \cup {done}
    BY <1>4 DEF Failed, Restated
  <2>2. Cardinality(Failed') = Cardinality(Failed) \/ Cardinality(Failed') = Cardinality(Failed) + 1
    BY <1>2, <2>1, FS_AddElement
  <2> QED
    BY <1>1, <1>2, <1>4, <2>2
<1> QED
  BY <1>3, <1>4

LEMMA ReportKeepsChecks ==
    ASSUME IInv, IInv', Checked, NEW k \in checks, NEW status \in {"passed", "failed"}, CompleteCheck(k, status)
    PROVE  Checked'
<1> DEFINE done == [k EXCEPT !.status = status]
<1>1. /\ checks' = Restated(k, done) /\ k.status \in {"pending", "late", status} /\ k \in CheckType
      /\ UNCHANGED <<steps, run, feature, branch, continues>>
  BY DEF CompleteCheck, Restated, bounds, IInv, Typed
<1>2. /\ done.commit = k.commit /\ done.attempt = k.attempt /\ done.status = status
      /\ k.status = status => done = k
  BY <1>1 DEF CheckType
<1> HIDE DEF done
<1>3. CASE k.status = status
  <2>1. checks' = checks
    BY <1>1, <1>2, <1>3 DEF Restated
  <2> QED
    BY <1>1, <2>1, RestKeepsChecks DEF RowMoves
<1>4. CASE k.status # status
  <2>1. Open(k) /\ k.status # "failed"
    BY <1>1, <1>4 DEF Open
  <2>2. /\ feature = "ready_to_merge" /\ k.commit = branch.approved /\ Spared
        /\ \A x \in checks : x.commit = k.commit => x.attempt <= k.attempt
        /\ \A x \in checks : Open(x) => x = k
        /\ CheckStatus(branch.approved) = k.status
    BY <2>1, OneIsOpen
  <2>3. IsFiniteSet(checks') /\ (status # "failed" => Failures' = Failures) /\ (Failures' = Failures \/ Failures' = Failures + 1)
    BY <1>1, <1>2, <2>1, ReportedFailures DEF Checked
  <2>4. \A x \in checks' : ~Open(x)
    BY <1>1, <1>2, <2>2 DEF Restated, Open
  <2>5. NoneOpen'
    BY <2>4 DEF NoneOpen, Open
  <2>6. CheckStatus(branch.approved)' = status
    <3>1. done \in checks' /\ \A x \in checks' : x.commit = done.commit => x.attempt <= done.attempt
      <4>1. k.attempt \in Nat
        BY <1>1 DEF CheckType
      <4> QED
        BY <1>1, <1>2, <2>2, <4>1 DEF Restated
    <3>2. (checks \subseteq CheckType)' /\ ChecksFit'
      BY DEF IInv, Typed
    <3>3. CheckStatus(done.commit)' = done.status
      BY <3>1, <3>2, LastStaysKnown DEF LastKnown
    <3>4. PICK c : c = done.commit /\ c = branch'.approved
      BY <1>1, <1>2, <2>2
    <3> QED
      BY <1>2, <3>3, <3>4
  <2>7. FixesSpent' /\ (status = "passed" => Spared')
    <3>1. PICK f \in Nat : f = Failures
      BY FailuresIs DEF Checked
    <3>2. PICK m \in Nat : m = MaxFixes
      BY RoundAssumption
    <3>3. PICK c \in Nat : c = continues
      BY DEF Checked
    <3>4. f <= m + c
      BY <2>2, <3>1, <3>2, <3>3 DEF Spared
    <3>5. f <= m + 1 + c /\ f + 1 <= m + 1 + c
      BY <3>4
    <3>6. continues' = c /\ (Failures' = f \/ Failures' = f + 1) /\ (status = "passed" => Failures' = f)
      BY <1>1, <2>3, <3>1, <3>3
    <3> QED
      BY <3>2, <3>4, <3>5, <3>6 DEF FixesSpent, Spared
  <2>8. ReadyFits'
    BY <1>1, <2>1, <2>2 DEF Checked, ReadyFits, Open
  <2>9. OpenFits'
    BY <2>4 DEF OpenFits, Open
  <2>10. FixesFit'
    BY <1>1, <2>2, <2>5, <2>6, <2>7 DEF FixesFit
  <2>11. steps.preview
    BY <2>1 DEF Checked
  <2> QED
    BY <1>1, <2>3, <2>8, <2>9, <2>10, <2>11 DEF Checked
<1> QED
  BY <1>3, <1>4

LEMMA DeadlineKeepsChecks ==
    ASSUME IInv, IInv', Checked, NEW k \in checks, BlockOverdueCheck(k)
    PROVE  Checked'
<1> DEFINE late == [k EXCEPT !.status = "late"]
<1>1. /\ checks' = Restated(k, late) /\ k.status = "pending" /\ k \in CheckType /\ run.status = "waiting"
      /\ waitRun("blocker", "no_desktop") /\ UNCHANGED <<steps, feature, branch, continues>> /\ RunOK(run)
  BY DEF BlockOverdueCheck, Restated, bounds, IInv, Typed
<1>2. late.commit = k.commit /\ late.attempt = k.attempt /\ late.status = "late"
  BY <1>1 DEF CheckType
<1> HIDE DEF late
<1>3. run'.status \notin RunEnds /\ run'.why = "no_desktop"
  <2>1. "blocker" \in WaitKinds /\ "no_desktop" \in Whys /\ run.status \notin RunEnds
    BY <1>1 DEF WaitKinds, Whys, RunEnds
  <2> QED
    BY <1>1, <2>1, WaitsSay DEF waitRun
<1>4. Open(k) /\ k.status # "failed"
  BY <1>1 DEF Open
<1>5. /\ feature = "ready_to_merge" /\ k.commit = branch.approved /\ Spared
      /\ \A x \in checks : x.commit = k.commit => x.attempt <= k.attempt
      /\ \A x \in checks : Open(x) => x = k
  BY <1>4, OneIsOpen
<1>6. IsFiniteSet(checks') /\ Failures' = Failures /\ Failures \in Nat /\ continues \in Nat /\ FixesSpent
  BY <1>1, <1>2, <1>4, ReportedFailures, FailuresIs DEF Checked, FixesFit
<1>7. Spared' /\ FixesSpent'
  BY <1>1, <1>5, <1>6, StaysSpared
<1>8. OpenFits'
  <2>1. \A x \in checks' : Open(x) => x = late
    BY <1>1, <1>5 DEF Restated
  <2>2. k.attempt \in Nat
    BY <1>1 DEF CheckType
  <2>3. \A x \in checks' : x.commit = late.commit => x.attempt <= late.attempt
    BY <1>1, <1>2, <1>5, <2>2 DEF Restated
  <2> QED
    BY <1>1, <1>2, <1>5, <2>1, <2>3 DEF OpenFits, Open
<1>9. ReadyFits' /\ FixesFit'
  BY <1>1, <1>3, <1>5, <1>7 DEF ReadyFits, FixesFit
<1>10. steps.preview
  BY DEF Checked
<1> QED
  BY <1>1, <1>3, <1>6, <1>8, <1>9, <1>10 DEF Checked

LEMMA StepKeepsChecks == IInv /\ IInv' /\ Owned /\ Checked /\ [Next]_vars => Checked'
<1> SUFFICES ASSUME IInv, IInv', Owned, Checked, [Next]_vars PROVE Checked'
  OBVIOUS
<1>1. ASSUME NEW r \in Roles, TurnEnds(r) \/ Admit(r) \/ Verify(r) \/ Join(r) \/ Refuse(r) PROVE Checked'
  BY <1>1, TurnStepsKeepChecks, VerifyKeepsChecks
<1>2. ASSUME NEW k \in checks, NEW s \in {"passed", "failed"}, CompleteCheck(k, s) PROVE Checked'
  BY <1>2, ReportKeepsChecks
<1>3. ASSUME NEW k \in checks, BlockOverdueCheck(k) PROVE Checked'
  BY <1>3, DeadlineKeepsChecks
<1>4. ASSUME NEW k \in told, PreviewCheckCompleted(k) PROVE Checked'
  BY <1>4, CompletionKeepsChecks
<1>5. CASE StartBaseUpdate \/ Merge
  BY <1>5, UpdateAndMergeKeepChecks
<1>6. CASE Pause \/ Resume \/ Continue \/ Push \/ Crash \/ Restart
  BY <1>6, PauseStepsKeepChecks
<1>7. CASE UNCHANGED vars
  BY <1>7, RestKeepsChecks DEF vars, bounds, RowMoves
<1> QED
  BY <1>1, <1>2, <1>3, <1>4, <1>5, <1>6, <1>7 DEF Next

LEMMA InitChecked == Init => Checked
<1> SUFFICES ASSUME Init PROVE Checked
  OBVIOUS
<1>1. checks = {} /\ continues = 0 /\ feature = "implementing" /\ run.status = "running"
  BY DEF Init
<1>2. Failures = 0
  <2>1. {k \in checks : k.status = "failed"} = {}
    BY <1>1
  <2> QED
    BY <2>1, FS_EmptySet DEF Failures
<1>3. Spared /\ FixesSpent
  BY <1>1, <1>2, RoundAssumption DEF Spared, FixesSpent
<1>4. IsFiniteSet(checks) /\ OpenFits
  BY <1>1, FS_EmptySet DEF OpenFits
<1> QED
  BY <1>1, <1>3, <1>4 DEF Checked, ReadyFits, FixesFit, RunEnds

\* Only what was approved and seen to pass is merged; rounds follow one another up to the
\* limit; a run at work has somebody at work on it; fixes of what the desktop app found are
\* limited (the handlers of remote_lead.go, base_update.go and preview_check.go together).
THEOREM RoundsStaySound == Spec => []RoundsAreSound
<1>1. Spec => [](IInv /\ Owned /\ Numbered)
  BY InitHolds, StepKeeps, InitOwned, StepKeepsOwners, InitNumbered, StepNumbers, PTL DEF Spec
<1>2. IInv /\ IInv' /\ Owned /\ Checked /\ [Next]_vars => Checked'
  BY StepKeepsChecks
<1>3. Spec => []Checked
  BY <1>1, <1>2, InitChecked, PTL DEF Spec
<1>4. IInv /\ Owned /\ Numbered /\ Checked => RoundsAreSound
  <2> SUFFICES ASSUME IInv, Owned, Numbered, Checked PROVE RoundsAreSound
    OBVIOUS
  <2>1. TypeOK
    BY TypesHold
  <2>2. MergedIsApproved
    BY DEF IInv, MergeHolds, MergedIsApproved
  <2>3. RoundsFollow
    BY DEF IInv, RoundsCalled
  <2>4. RunningIsOwned
    BY DEF Owned
  <2>5. FixesAreLimited
    BY DEF Checked, FixesFit, FixesSpent, FixesAreLimited
  <2> QED
    BY <2>1, <2>2, <2>3, <2>4, <2>5 DEF RoundsAreSound
<1> QED
  BY <1>1, <1>3, <1>4, PTL

=================================================================================
