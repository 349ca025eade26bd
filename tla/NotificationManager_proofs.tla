----------------------- MODULE NotificationManager_proofs -----------------------
(***************************************************************************)
(* Proofs about NotificationManager, for any sets of problems and devices, *)
(* any confirmation time and any number of restarts.                       *)
(*                                                                         *)
(* A message about a problem set is sent when the waiting set has the age  *)
(* Confirm, so ProblemsAreConfirmed needs what relates the waiting set to  *)
(* the snapshots (WaitingIsSeen).  A recovery is sent when the reported    *)
(* set is not empty, so RecoveryFollowsProblem needs what the reported set *)
(* says of the messages (ReportedWasTold), and that a recovery under way   *)
(* will make the reported set empty (RecoveryIsHealthy).                   *)
(***************************************************************************)
EXTENDS NotificationManager, TLAPS

\* The set that waits is the one the last snapshots showed, for as long.
WaitingIsSeen ==
  pending.signature # Healthy =>
    seen.signature = pending.signature /\ pending.age <= seen.age

\* A reported set that is not empty was the last thing told.
ReportedWasTold == state.last # Healthy /\ ~forgot => told = "problem"

RecoveryIsHealthy == call.kind = "recovery" => call.signature = Healthy

IInv == /\ TypeOK
        /\ WaitingIsSeen /\ ProblemsAreConfirmed
        /\ ReportedWasTold /\ RecoveryIsHealthy /\ RecoveryFollowsProblem

\* The type of call, without the start phase.
Calls == [pc : {"idle", "send", "save"}, kind : Kinds \union {"none"},
          signature : Signatures]
Seen  == [signature : Signatures, age : Ages]

-----------------------------------------------------------------------------
\* Growing older keeps an age in range and keeps the order of two ages, and the
\* confirmation time is as old as anything gets.
LEMMA OlderAges ==
  /\ \A x \in Ages : Older(x) \in Ages
  /\ \A x, y \in Ages : x <= y => Older(x) <= Older(y)
  /\ Older(Confirm) = Confirm
  BY BoundAssumption DEF Older, Ages

\* The confirmation time and no time at all are ages.
LEMMA AgeBounds == 0 \in Ages /\ Confirm \in Ages
  BY BoundAssumption DEF Ages

\* What a fresh process starts with is well typed.
LEMMA Fresh ==
  /\ NoPending \in Seen /\ NoPending.signature = Healthy
  /\ NoCall \in Calls /\ NoCall.kind = "none"
  BY AgeBounds DEF NoPending, NoCall, Signatures, Healthy, Seen, Calls

\* Nothing has been seen or told.
LEMMA InitInvariant == Init => IInv
<1> SUFFICES ASSUME Init PROVE IInv
  OBVIOUS
<1>1. TypeOK
  <2>1. disk \in State /\ state \in State /\ problems \in Signatures
    <3>1. Healthy \in Signatures /\ {} \in Targets
      BY DEF Signatures, Healthy, Targets
    <3> QED
      BY <3>1 DEF Init, State
  <2>2. settled \in BOOLEAN /\ forgot \in BOOLEAN
    BY DEF Init
  <2>3. restarts \in 0..MaxRestarts /\ told \in {"nothing", "problem", "recovery"}
    BY BoundAssumption DEF Init
  <2>4. pending \in Seen /\ seen \in Seen /\ call \in Calls /\ call = NoCall
    BY Fresh DEF Init
  <2> QED
    BY <2>1, <2>2, <2>3, <2>4 DEF Init, TypeOK, Seen, Calls
<1>2. WaitingIsSeen /\ ReportedWasTold
  BY DEF Init, WaitingIsSeen, ReportedWasTold, NoPending
<1>3. ProblemsAreConfirmed /\ RecoveryIsHealthy /\ RecoveryFollowsProblem
  BY DEF Init, ProblemsAreConfirmed, RecoveryIsHealthy, RecoveryFollowsProblem, NoCall
<1> QED
  BY <1>1, <1>2, <1>3 DEF IInv

-----------------------------------------------------------------------------
\* After a snapshot the last set seen is the set of the snapshot, and its age is
\* kept if the set is the one before.
LEMMA ObserveSees ==
  ASSUME TypeOK, Observe
  PROVE  /\ seen' \in Seen
         /\ seen'.signature = problems
         /\ seen.signature = problems => seen' = seen
  BY AgeBounds DEF TypeOK, Observe, Seen

\* Whatever the decision of a snapshot is, it keeps the invariant.
LEMMA ProcessKeeps ==
  ASSUME IInv, Process
  PROVE  IInv'
<1> USE DEF IInv
<1>1. /\ settled /\ call = NoCall
      /\ UNCHANGED <<problems, settings, settled, disk, restarts, told, forgot>>
  BY DEF Process
<1>2. /\ seen' \in Seen
      /\ seen'.signature = problems
      /\ seen.signature = problems => seen' = seen
  BY ObserveSees DEF Process
<1>3. NoPending \in Seen /\ NoPending.signature = Healthy
  BY Fresh
<1>4. NoCall.kind = "none" /\ NoCall \in Calls
  BY Fresh
\* Every decision but two sends leaves it at this.
<1>5. ASSUME pending' \in Seen, WaitingIsSeen', state' \in State, ReportedWasTold',
             call' \in Calls, call'.kind \notin {"problem", "recovery"}
      PROVE  IInv'
  BY <1>1, <1>2, <1>5
  DEF TypeOK, Seen, Calls, ProblemsAreConfirmed, RecoveryIsHealthy, RecoveryFollowsProblem
<1>6. ASSUME Hold(NoPending)
      PROVE  pending' \in Seen /\ WaitingIsSeen'
  BY <1>3, <1>6 DEF Hold, WaitingIsSeen
<1>7. ASSUME NEW next \in State, Save(next),
             next.last # Healthy => next.last = state.last
      PROVE  /\ state' \in State /\ ReportedWasTold'
             /\ call' \in Calls /\ call'.kind \notin {"problem", "recovery"}
  <2>1. call' \in Calls /\ call'.kind = "none"
    BY <1>7 DEF Save, NoCall, Calls, Signatures, Healthy
  <2> QED
    BY <1>1, <1>7, <2>1 DEF Save, ReportedWasTold
<1>8. ASSUME UNCHANGED state
      PROVE  state' \in State /\ ReportedWasTold'
  BY <1>1, <1>8 DEF TypeOK, ReportedWasTold
<1>9. ASSUME Return
      PROVE  call' \in Calls /\ call'.kind \notin {"problem", "recovery"}
  BY <1>4, <1>9 DEF Return
<1>10. ASSUME NEW kind \in Kinds, Send(kind)
       PROVE  call' \in Calls /\ call'.kind = kind /\ call'.signature = problems
  BY <1>10 DEF Send, TypeOK, Calls
<1>11. \A s \in Signatures : Reported(s) \in State /\ Reported(s).last = s
  BY DEF Reported, TypeOK, State, Settings
<1>12. CASE Disable
  <2>1. [state EXCEPT !.wasEnabled = FALSE] \in State
        /\ [state EXCEPT !.wasEnabled = FALSE].last = state.last
    BY DEF TypeOK, State
  <2> QED
    BY <1>5, <1>6, <1>7, <1>8, <1>9, <1>12, <2>1 DEF Disable
<1>13. CASE EnableFirst
  <2>1. CASE problems = Healthy
    <3>1. /\ [Reported(Healthy) EXCEPT !.wasEnabled = TRUE] \in State
          /\ [Reported(Healthy) EXCEPT !.wasEnabled = TRUE].last = Healthy
      <4>1. Reported(Healthy) \in State /\ Reported(Healthy).last = Healthy
        BY <1>11 DEF Signatures, Healthy
      <4>2. \A s \in State : [s EXCEPT !.wasEnabled = TRUE] \in State
                             /\ [s EXCEPT !.wasEnabled = TRUE].last = s.last
        BY DEF State
      <4> QED
        BY <4>1, <4>2
    <3> QED
      BY <1>5, <1>6, <1>7, <1>13, <2>1, <3>1 DEF EnableFirst
  <2>2. CASE problems # Healthy
    <3>1. state' \in State /\ state'.last = state.last
      BY <1>13, <2>2 DEF EnableFirst, TypeOK, State
    <3>2. ReportedWasTold'
      BY <1>1, <3>1 DEF ReportedWasTold
    <3> QED
      BY <1>5, <1>6, <1>10, <1>13, <2>2, <3>1, <3>2 DEF EnableFirst, Kinds
  <2> QED
    BY <2>1, <2>2
<1>14. CASE Unchanged
  <2>1. Reported(problems) \in State /\ Reported(problems).last = state.last
    BY <1>11, <1>14 DEF Unchanged, TypeOK
  <2> QED
    BY <1>5, <1>6, <1>7, <1>8, <1>9, <1>10, <1>14, <2>1 DEF Unchanged, Kinds
<1>15. CASE Recover
  <2>1. CASE settings.onRecovery
    <3>1. Send("recovery") /\ UNCHANGED state /\ Hold(NoPending)
      BY <1>15, <2>1 DEF Recover
    <3>2. call' \in Calls /\ call'.kind = "recovery" /\ call'.signature = Healthy
      BY <1>10, <1>15, <3>1 DEF Recover, Kinds
    <3>3. TypeOK' /\ WaitingIsSeen' /\ ReportedWasTold'
      BY <1>1, <1>2, <1>6, <1>8, <3>1, <3>2 DEF TypeOK, Calls, Seen
    <3>4. RecoveryFollowsProblem'
      BY <1>1, <1>15 DEF RecoveryFollowsProblem, ReportedWasTold, Recover
    <3> QED
      BY <3>2, <3>3, <3>4 DEF ProblemsAreConfirmed, RecoveryIsHealthy
  <2>2. CASE ~settings.onRecovery
    <3>1. Reported(Healthy) \in State /\ Reported(Healthy).last = Healthy
      BY <1>11 DEF Signatures, Healthy
    <3> QED
      BY <1>5, <1>6, <1>7, <1>15, <2>2, <3>1 DEF Recover
  <2> QED
    BY <2>1, <2>2
<1>16. CASE AwaitConfirmation
  <2>1. pending' \in Seen /\ WaitingIsSeen'
    <3>1. CASE problems # pending.signature /\ Hold([signature |-> problems, age |-> 0])
      BY <1>2, <3>1, AgeBounds DEF Hold, WaitingIsSeen, TypeOK, Ages, Seen
    <3>2. CASE problems = pending.signature /\ UNCHANGED pending
      BY <1>2, <3>2 DEF WaitingIsSeen, TypeOK, Seen
    <3> QED
      BY <1>16, <3>1, <3>2 DEF AwaitConfirmation
  <2> QED
    BY <1>5, <1>8, <1>9, <1>16, <2>1 DEF AwaitConfirmation
<1>17. CASE ReportProblem
  <2>1. /\ Send("problem") /\ UNCHANGED state /\ Hold(NoPending)
        /\ problems # Healthy /\ problems = pending.signature /\ pending.age = Confirm
    BY <1>17 DEF ReportProblem
  <2>2. call' \in Calls /\ call'.kind = "problem" /\ call'.signature = problems
    BY <1>10, <2>1 DEF Kinds
  <2>3. seen'.age = Confirm
    <3>1. seen' = seen /\ Confirm <= seen.age
      BY <1>2, <2>1 DEF WaitingIsSeen
    <3> QED
      BY <3>1, BoundAssumption DEF TypeOK, Ages
  <2>4. TypeOK' /\ WaitingIsSeen' /\ ReportedWasTold'
    BY <1>1, <1>2, <1>6, <1>8, <2>1, <2>2 DEF TypeOK, Calls, Seen
  <2> QED
    BY <1>2, <2>2, <2>3, <2>4
    DEF ProblemsAreConfirmed, RecoveryIsHealthy, RecoveryFollowsProblem
<1> QED
  BY <1>12, <1>13, <1>14, <1>15, <1>16, <1>17 DEF Process, Decide

-----------------------------------------------------------------------------
\* The invariant is kept by every step.
LEMMA Invariance == IInv /\ [Next]_vars => IInv'
<1> SUFFICES ASSUME IInv, [Next]_vars PROVE IInv'
  OBVIOUS
<1> USE DEF IInv
<1>1. CASE Restart
  <2>1. TypeOK'
    <3>1. restarts' \in 0..MaxRestarts
      BY <1>1, BoundAssumption DEF Restart, TypeOK
    <3>2. disk' \in State /\ state' \in State /\ settings' \in Settings
      BY <1>1 DEF Restart, TypeOK
    <3>3. told' \in {"nothing", "problem", "recovery"}
      BY <1>1 DEF Restart, TypeOK
    <3>4. forgot' \in BOOLEAN
      BY <1>1, Zenon DEF Restart
    <3> QED
      BY <1>1, <3>1, <3>2, <3>3, <3>4, Fresh DEF Restart, TypeOK, Seen, Calls
  <2>2. WaitingIsSeen' /\ ProblemsAreConfirmed' /\ RecoveryIsHealthy' /\ RecoveryFollowsProblem'
    BY <1>1 DEF Restart, WaitingIsSeen, ProblemsAreConfirmed, RecoveryIsHealthy,
                RecoveryFollowsProblem, NoPending, NoCall
  <2>3. ReportedWasTold'
    BY <1>1 DEF Restart, ReportedWasTold
  <2> QED
    BY <2>1, <2>2, <2>3
<1>2. CASE ProblemsChange \/ Settle
  BY <1>2 DEF ProblemsChange, Settle, TypeOK, WaitingIsSeen, ProblemsAreConfirmed,
              ReportedWasTold, RecoveryIsHealthy, RecoveryFollowsProblem, memory, history
<1>3. CASE Tick
  <2>1. /\ seen' = [seen EXCEPT !.age = Older(seen.age)]
        /\ pending' = [pending EXCEPT !.age = IF pending.signature = Healthy THEN 0
                                              ELSE Older(pending.age)]
        /\ UNCHANGED <<problems, settings, settled, state, call, disk, restarts, told, forgot>>
    BY <1>3 DEF Tick
  <2>2. TypeOK'
    BY <2>1, OlderAges, AgeBounds DEF TypeOK
  <2>3. WaitingIsSeen'
    BY <2>1, OlderAges DEF WaitingIsSeen, TypeOK
  <2>4. ProblemsAreConfirmed'
    BY <2>1, OlderAges DEF ProblemsAreConfirmed, TypeOK
  <2> QED
    BY <2>1, <2>2, <2>3, <2>4 DEF ReportedWasTold, RecoveryIsHealthy, RecoveryFollowsProblem
<1>4. CASE Process
  BY <1>4, ProcessKeeps
<1>5. CASE Sent
  <2>1. state' = [state EXCEPT !.last = call.signature, !.targets = settings.targets]
        /\ call' = [NoCall EXCEPT !.pc = "save"]
        /\ told' = (IF call.kind = "recovery" THEN "recovery" ELSE "problem")
        /\ UNCHANGED <<problems, settings, settled, pending, disk, restarts, seen, forgot>>
    BY <1>5 DEF Sent, Save, Reported
  <2>2. settled
    BY <1>5 DEF Sent, TypeOK, NoCall
  <2>3. TypeOK'
    BY <2>1, <2>2 DEF TypeOK, State, Settings, Signatures, Healthy, NoCall
  <2>4. ReportedWasTold'
    BY <2>1 DEF ReportedWasTold, RecoveryIsHealthy, TypeOK, State
  <2> QED
    BY <2>1, <2>3, <2>4
    DEF WaitingIsSeen, ProblemsAreConfirmed, RecoveryIsHealthy, RecoveryFollowsProblem, NoCall
<1>6. CASE SendFailed \/ Saved \/ SaveFailed
  <2>1. /\ call' = NoCall /\ disk' \in {disk, state}
        /\ UNCHANGED <<problems, settings, settled, state, pending, restarts, seen, told, forgot>>
    BY <1>6 DEF SendFailed, Saved, SaveFailed, Return, memory, history
  <2>2. TypeOK'
    BY <2>1 DEF TypeOK, NoCall, Signatures, Healthy
  <2> QED
    BY <2>1, <2>2 DEF WaitingIsSeen, ProblemsAreConfirmed, ReportedWasTold,
                      RecoveryIsHealthy, RecoveryFollowsProblem, NoCall
<1>7. CASE UNCHANGED vars
  BY <1>7 DEF vars, memory, history, TypeOK, WaitingIsSeen, ProblemsAreConfirmed,
              ReportedWasTold, RecoveryIsHealthy, RecoveryFollowsProblem
<1> QED
  BY <1>1, <1>2, <1>3, <1>4, <1>5, <1>6, <1>7 DEF Next

\* Every variable keeps its type, and nothing is sent or saved in the start phase
\* (async_process is not called before async_mark_startup_settled).
THEOREM TypeCorrect == Spec => []TypeOK
<1>1. IInv => TypeOK
  BY DEF IInv
<1> QED
  BY <1>1, InitInvariant, Invariance, PTL DEF Spec

\* A problem message is sent only when the snapshots of the whole confirmation
\* time showed exactly that set (evaluate_notification_change).
THEOREM ProblemsWaitForConfirmation == Spec => []ProblemsAreConfirmed
<1>1. IInv => ProblemsAreConfirmed
  BY DEF IInv
<1> QED
  BY <1>1, InitInvariant, Invariance, PTL DEF Spec

\* A recovery message follows a problem message, whatever failed or was switched
\* off in between, unless a restart lost what had been told.
THEOREM RecoveryIsEarned == Spec => []RecoveryFollowsProblem
<1>1. IInv => RecoveryFollowsProblem
  BY DEF IInv
<1> QED
  BY <1>1, InitInvariant, Invariance, PTL DEF Spec

===============================================================================
