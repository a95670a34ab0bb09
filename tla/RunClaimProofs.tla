---------------------------- MODULE RunClaimProofs ----------------------------
(***************************************************************************)
(* Proofs about RunClaim when one agent works at a time: any number of     *)
(* goroutines, of Continue requests and of self-corrections.               *)
(*                                                                         *)
(* The claim's properties are not inductive by themselves.  Serial adds    *)
(* what each place says of the goroutine there: which places hold the      *)
(* claim, that a pending correction is its own holder's, and that the run  *)
(* is claimed exactly when somebody holds it.                              *)
(***************************************************************************)
EXTENDS RunClaim, TLAPS

(* The places of a goroutine that observes a claimed turn. *)
TurnPlaces == {"turn", "hold", "note", "noting", "correct", "release"}

(* Which places a goroutine with a duty to release can be at. *)
PlacesOfHolders ==
  \A g \in Procs :
    /\ pc[g] \notin {"unclaim", "spawn"} /\ owed[g] = 0
    /\ pc[g] \in TurnPlaces => claimed[g]
    /\ claimed[g] => pc[g] \in TurnPlaces \cup {"block", "blocking"} /\ g \notin correcting
    /\ g \in correcting => pc[g] \in {"begin", "recheck", "free", "drop"}
    /\ pc[g] \in {"free", "drop"} => g \in correcting

(* The run is claimed exactly while somebody holds it. *)
ClaimedByHolder == active <=> \E g \in Procs : g \in Holders

(* A pending correction is the holder's own: still being noted, or ready   *)
(* for its release. *)
PendingIsHolders ==
  /\ pending # "released"
  /\ pending = "none" => Noting = {}
  /\ pending = "noting" => \E g \in Procs : g \in Noting
  /\ pending = "ready" => Noting = {} /\ \E g \in Procs : pc[g] = "release"

Serial == PlacesOfHolders /\ OneHolder /\ ClaimedByHolder /\ PendingIsHolders

IInv == TypeOK /\ Serial

(* Before any turn nobody holds the run. *)
LEMMA InitSerial == ASSUME Init PROVE IInv
  BY DEF Init, IInv, Serial, TypeOK, Places, PlacesOfHolders, TurnPlaces, OneHolder,
     ClaimedByHolder,
     PendingIsHolders, Holders, Noting

(* A goroutine that starts one claimed turn hands its place to one idle goroutine. *)
LEMMA StartOne ==
  ASSUME TypeOK, NEW g \in Procs, pc[g] # "idle", NEW a \in Agents, NEW by \in Starts,
         DOMAIN by = {a}, Start(g, by, TRUE, "idle")
  PROVE  \E h \in Procs : /\ h # g /\ pc[h] = "idle"
                           /\ pc' = [pc EXCEPT ![h] = "turn", ![g] = "idle"]
                           /\ claimed' = [claimed EXCEPT ![h] = TRUE]
                           /\ turn' \in [Procs -> Agents]
  <1>1. by[a] \in Procs BY DEF Starts
  <1>2. {by[b] : b \in DOMAIN by} = {by[a]} OBVIOUS
  <1>3. pc[by[a]] = "idle" /\ by[a] # g BY <1>1, <1>2 DEF Start, Idle
  <1>4. pc' = [pc EXCEPT ![by[a]] = "turn", ![g] = "idle"]
    BY <1>1, <1>2, <1>3 DEF Start, TypeOK
  <1>5. claimed' = [claimed EXCEPT ![by[a]] = TRUE] BY <1>1, <1>2 DEF Start, TypeOK
  <1>6. \A h \in Procs : turn'[h] \in Agents
    <2> TAKE h \in Procs
    <2>1. CASE h = by[a]
      <3>1. turn'[h] = CHOOSE b \in DOMAIN by : by[b] = h BY <1>2, <2>1 DEF Start
      <3>2. \E b \in DOMAIN by : by[b] = h BY <2>1
      <3> QED BY <3>1, <3>2
    <2>2. CASE h # by[a] BY <1>2, <2>2 DEF Start, TypeOK
    <2> QED BY <2>1, <2>2
  <1>7. turn' \in [Procs -> Agents] BY <1>6 DEF Start
  <1> QED BY <1>1, <1>3, <1>4, <1>5, <1>7

(* Each step of a goroutine keeps the invariant when one agent works at a time. *)
LEMMA StepSerial == ASSUME ~Parallel, IInv, NEW g \in Procs, Step(g) PROVE IInv'
  <1> USE DEF IInv, turns
  <1>1. CASE Claim(g)
    <2>1. TypeOK'
      BY <1>1 DEF Claim, GoTo, Rest, TypeOK, Places
    <2>2. Serial'
      BY <1>1 DEF Claim, GoTo, Rest, TypeOK, Serial, PlacesOfHolders, TurnPlaces, OneHolder,
         ClaimedByHolder, PendingIsHolders, Holders, Noting
    <2> QED BY <2>1, <2>2
  <1>2. CASE AdmitFails(g)
    <2>1. TypeOK'
      BY <1>2 DEF AdmitFails, GoTo, Rest, TypeOK, Places
    <2>2. Serial'
      BY <1>2 DEF AdmitFails, GoTo, Rest, TypeOK, Serial, PlacesOfHolders, TurnPlaces,
         OneHolder, ClaimedByHolder, PendingIsHolders, Holders, Noting
    <2> QED BY <2>1, <2>2
  <1>3. CASE AdvanceFails(g)
    <2>1. TypeOK'
      BY <1>3 DEF AdvanceFails, GoTo, Rest, TypeOK, Places
    <2>2. Serial'
      BY <1>3 DEF AdvanceFails, GoTo, Rest, TypeOK, Serial, PlacesOfHolders, TurnPlaces,
         OneHolder, ClaimedByHolder, PendingIsHolders, Holders, Noting
    <2> QED BY <2>1, <2>2
  <1>4. CASE Complete(g)
    <2>1. TypeOK'
      BY <1>4 DEF Complete, GoTo, Rest, TypeOK, Places
    <2>2. Serial'
      BY <1>4 DEF Complete, GoTo, Rest, TypeOK, Serial, PlacesOfHolders, TurnPlaces, OneHolder,
         ClaimedByHolder, PendingIsHolders, Holders, Noting
    <2> QED BY <2>1, <2>2
  <1>5. CASE Fail(g)
    <2>1. TypeOK'
      BY <1>5 DEF Fail, GoTo, Rest, TypeOK, Places
    <2>2. Serial'
      BY <1>5 DEF Fail, GoTo, Rest, TypeOK, Serial, PlacesOfHolders, TurnPlaces, OneHolder,
         ClaimedByHolder, PendingIsHolders, Holders, Noting
    <2> QED BY <2>1, <2>2
  <1>6. CASE Refuse(g)
    <2>1. TypeOK'
      BY <1>6 DEF Refuse, GoTo, Rest, TypeOK, Places
    <2>2. Serial'
      BY <1>6 DEF Refuse, GoTo, Rest, TypeOK, Serial, PlacesOfHolders, TurnPlaces, OneHolder,
         ClaimedByHolder, PendingIsHolders, Holders, Noting
    <2> QED BY <2>1, <2>2
  <1>7. CASE HoldForCorrection(g)
    <2>1. TypeOK'
      BY <1>7 DEF HoldForCorrection, GoTo, Rest, TypeOK, Places
    <2>2. Serial'
      BY <1>7 DEF HoldForCorrection, GoTo, Rest, TypeOK, Serial, PlacesOfHolders, TurnPlaces,
         OneHolder, ClaimedByHolder, PendingIsHolders, Holders, Noting
    <2> QED BY <2>1, <2>2
  <1>8. CASE ReadRun(g)
    <2>1. TypeOK'
      BY <1>8 DEF ReadRun, GoTo, Rest, TypeOK, Places
    <2>2. Serial'
      BY <1>8 DEF ReadRun, GoTo, Rest, TypeOK, Serial, PlacesOfHolders, TurnPlaces, OneHolder,
         ClaimedByHolder, PendingIsHolders, Holders, Noting
    <2> QED BY <2>1, <2>2
  <1>9. CASE WaitRun(g)
    <2>1. TypeOK'
      BY <1>9 DEF WaitRun, GoTo, Rest, TypeOK, Places
    <2>2. Serial'
      BY <1>9 DEF WaitRun, GoTo, Rest, TypeOK, Serial, PlacesOfHolders, TurnPlaces, OneHolder,
         ClaimedByHolder, PendingIsHolders, Holders, Noting
    <2> QED BY <2>1, <2>2
  <1>10. CASE CorrectWhenFree(g)
    <2>1. TypeOK'
      BY <1>10 DEF CorrectWhenFree, GoTo, Rest, TypeOK, Places
    <2>2. Serial'
      BY <1>10 DEF CorrectWhenFree, GoTo, Rest, TypeOK, Serial, PlacesOfHolders, TurnPlaces,
         OneHolder, ClaimedByHolder, PendingIsHolders, Holders, Noting
    <2> QED BY <2>1, <2>2
  <1>11. CASE Release(g)
    <2> USE DEF Release, GoTo, LetGo
    <2>1. claimed[g] /\ g \notin correcting /\ active
      BY <1>11 DEF Serial, PlacesOfHolders, TurnPlaces, ClaimedByHolder, Holders
    <2>2. pending \in {"none", "ready"}
      BY <1>11, <2>1 DEF TypeOK, Serial, PlacesOfHolders, TurnPlaces, OneHolder, PendingIsHolders,
         Holders, Noting
    <2>3. CASE pending = "none"
      <3>1. TypeOK' BY <1>11, <2>3 DEF TypeOK, Places
      <3>2. \A h \in Procs : h \in Holders => h = g
        BY <2>1 DEF Serial, OneHolder, Holders
      <3>3. Holders' = {}
        BY <1>11, <2>1, <2>3, <3>2 DEF TypeOK, Holders
      <3>4. PlacesOfHolders'
        BY <1>11, <2>1, <2>3 DEF TypeOK, Serial, PlacesOfHolders, TurnPlaces
      <3>5. OneHolder' /\ ClaimedByHolder'
        BY <1>11, <2>3, <3>3 DEF OneHolder, ClaimedByHolder
      <3>6. PendingIsHolders'
        BY <1>11, <2>3 DEF TypeOK, Serial, PendingIsHolders, Noting
      <3> QED BY <3>1, <3>4, <3>5, <3>6 DEF Serial
    <2>4. CASE pending = "ready"
      <3>1. TypeOK' BY <1>11, <2>4 DEF TypeOK, Places
      <3>2. \A h \in Procs : h \in Holders <=> h \in Holders'
        BY <1>11, <2>1, <2>4 DEF TypeOK, Holders, Serial, PlacesOfHolders, TurnPlaces
      <3>3. PlacesOfHolders'
        BY <1>11, <2>1, <2>4 DEF TypeOK, Serial, PlacesOfHolders, TurnPlaces
      <3>4. OneHolder' /\ ClaimedByHolder'
        BY <1>11, <2>4, <3>2 DEF Serial, OneHolder, ClaimedByHolder, Holders
      <3>5. PendingIsHolders'
        BY <1>11, <2>4 DEF TypeOK, Serial, PendingIsHolders, Noting
      <3> QED BY <3>1, <3>3, <3>4, <3>5 DEF Serial
    <2> QED BY <2>2, <2>3, <2>4
  <1>12. CASE Unclaim(g)
    BY <1>12 DEF Unclaim, Serial, PlacesOfHolders
  <1>13. CASE Continue(g)
    <2>1. TypeOK'
      BY <1>13 DEF Continue, GoTo, Rest, TypeOK, Places
    <2>2. Serial'
      BY <1>13 DEF Continue, GoTo, Rest, TypeOK, Serial, PlacesOfHolders, TurnPlaces, OneHolder,
         ClaimedByHolder, PendingIsHolders, Holders, Noting
    <2> QED BY <2>1, <2>2
  <1>14. CASE BeginRecovery(g)
    <2>1. TypeOK'
      BY <1>14 DEF BeginRecovery, GoTo, Rest, TypeOK, Places
    <2>2. Serial'
      BY <1>14 DEF BeginRecovery, GoTo, Rest, TypeOK, Serial, PlacesOfHolders, TurnPlaces,
         OneHolder, ClaimedByHolder, PendingIsHolders, Holders, Noting
    <2> QED BY <2>1, <2>2
  <1>15. CASE Recheck(g)
    <2>1. TypeOK'
      BY <1>15 DEF Recheck, GoTo, Rest, TypeOK, Places
    <2>2. Serial'
      BY <1>15 DEF Recheck, GoTo, Rest, TypeOK, Serial, PlacesOfHolders, TurnPlaces, OneHolder,
         ClaimedByHolder, PendingIsHolders, Holders, Noting
    <2> QED BY <2>1, <2>2
  <1>16. CASE Free(g)
    <2>1. TypeOK'
      BY <1>16 DEF Free, GoTo, Rest, TypeOK, Places
    <2>2. Serial'
      BY <1>16 DEF Free, GoTo, Rest, TypeOK, Serial, PlacesOfHolders, TurnPlaces, OneHolder,
         ClaimedByHolder, PendingIsHolders, Holders, Noting
    <2> QED BY <2>1, <2>2
  <1>17. CASE LeaveToHolder(g)
    <2>1. TypeOK'
      BY <1>17 DEF LeaveToHolder, GoTo, Rest, TypeOK, Places
    <2>2. Serial'
      BY <1>17 DEF LeaveToHolder, GoTo, Rest, TypeOK, Serial, PlacesOfHolders, TurnPlaces,
         OneHolder, ClaimedByHolder, PendingIsHolders, Holders, Noting
    <2> QED BY <2>1, <2>2
  <1>18. CASE RecoverFails(g)
    <2>1. TypeOK'
      BY <1>18 DEF RecoverFails, GoTo, Rest, TypeOK, Places
    <2>2. Serial'
      BY <1>18 DEF RecoverFails, GoTo, Rest, TypeOK, Serial, PlacesOfHolders, TurnPlaces,
         OneHolder, ClaimedByHolder, PendingIsHolders, Holders, Noting
    <2> QED BY <2>1, <2>2
  <1>19. CASE \E by \in Starts : Admit(g, by)
    <2>1. PICK by \in Starts : Admit(g, by) BY <1>19
    <2>2. Rest(g) = "idle" /\ g \in Holders
      BY <2>1 DEF Admit, Rest, Serial, PlacesOfHolders, TurnPlaces, Holders
    <2>3. PICK a \in Agents : DOMAIN by = {a}
      BY <2>1, ConstantsAssumption DEF Admit, Parallel
    <2>4. PICK h \in Procs : /\ h # g /\ pc[h] = "idle"
                              /\ pc' = [pc EXCEPT ![h] = "turn", ![g] = "idle"]
                              /\ claimed' = [claimed EXCEPT ![h] = TRUE]
                              /\ turn' \in [Procs -> Agents]
      BY <2>1, <2>2, <2>3, StartOne DEF Admit
    <2>5. TypeOK' BY <2>1, <2>4 DEF Admit, TypeOK, Places
    <2>6. Serial'
      BY <2>1, <2>2, <2>4 DEF Admit, TypeOK, Serial, PlacesOfHolders, TurnPlaces, OneHolder,
         ClaimedByHolder, PendingIsHolders,
          Holders, Noting
    <2> QED BY <2>5, <2>6
  <1>20. CASE \E by \in Starts : Recover(g, by)
    <2>1. PICK by \in Starts : Recover(g, by) BY <1>20
    <2>2. Rest(g) = "idle"
      BY <2>1 DEF Recover, Rest, Serial, PlacesOfHolders, TurnPlaces
    <2>3. PICK a \in Agents : /\ DOMAIN by = {a} /\ Start(g, by, TRUE, Rest(g))
                              /\ working' = working \cup {a}
      BY <2>1 DEF Recover, Parallel, TypeOK
    <2>4. PICK h \in Procs : /\ h # g /\ pc[h] = "idle"
                              /\ pc' = [pc EXCEPT ![h] = "turn", ![g] = "idle"]
                              /\ claimed' = [claimed EXCEPT ![h] = TRUE]
                              /\ turn' \in [Procs -> Agents]
      BY <2>1, <2>2, <2>3, StartOne DEF Recover
    <2>5. TypeOK' BY <2>1, <2>3, <2>4 DEF Recover, TypeOK, Places
    <2>6. Serial'
      BY <2>1, <2>4 DEF Recover, TypeOK, Serial, PlacesOfHolders, TurnPlaces, OneHolder,
         ClaimedByHolder, PendingIsHolders,
          Holders, Noting
    <2> QED BY <2>5, <2>6
  <1>21. CASE \E by \in Starts : SpawnParallel(g, by)
    BY <1>21 DEF SpawnParallel, Serial, PlacesOfHolders
  <1> QED BY <1>1, <1>2, <1>3, <1>4, <1>5, <1>6, <1>7, <1>8, <1>9, <1>10, <1>11, <1>12, <1>13,
     <1>14, <1>15, <1>16, <1>17, <1>18, <1>19, <1>20, <1>21 DEF Step

LEMMA StutterSerial == ASSUME IInv, UNCHANGED vars PROVE IInv'
  BY DEF IInv, vars, Serial, TypeOK, PlacesOfHolders, OneHolder, ClaimedByHolder, PendingIsHolders,
     Holders, Noting

(* With one agent at work, the invariant holds throughout. *)
THEOREM SerialInvariant == ASSUME ~Parallel PROVE Spec => []IInv
  <1>1. Init => IInv BY InitSerial
  <1>2. IInv /\ [Next]_vars => IInv' BY StepSerial, StutterSerial DEF Next
  <1> QED BY <1>1, <1>2, PTL DEF Spec
(* A run has one holder at a time. *)
THEOREM OneAtATime == ASSUME ~Parallel PROVE Spec => []OneHolder
  BY SerialInvariant, PTL DEF IInv, Serial

(* A claim always has somebody who will let the run go. *)
THEOREM ClaimsAreOwned == ASSUME ~Parallel PROVE Spec => []ClaimHasOwner
  <1>1. IInv => ClaimHasOwner BY DEF IInv, Serial, ClaimedByHolder, ClaimHasOwner
  <1> QED BY <1>1, SerialInvariant, PTL

(* A refused turn goes back to its agent without anyone seeing its run free *)
(* and blocked. *)
THEOREM HandoverIsUnseen == ASSUME ~Parallel PROVE Spec => []NeverFreeAndBlocked
  <1>1. IInv => NeverFreeAndBlocked
    <2> SUFFICES ASSUME IInv, pending # "none" \/ GoingBack # {} PROVE active
      BY DEF NeverFreeAndBlocked
    <2>1. \E g \in Procs : g \in Holders
      BY DEF IInv, TypeOK, Serial, PlacesOfHolders, TurnPlaces, PendingIsHolders, GoingBack,
         Holders,
         Noting
    <2> QED BY <2>1 DEF IInv, Serial, ClaimedByHolder
  <1> QED BY <1>1, SerialInvariant, PTL
=============================================================================
