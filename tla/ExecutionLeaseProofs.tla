------------------------ MODULE ExecutionLeaseProofs ------------------------
(***************************************************************************)
(* Proofs about ExecutionLease, for every set of sessions, users, replicas *)
(* and turns, every lease length, cap and horizon.                         *)
(***************************************************************************)
EXTENDS ExecutionLease, FiniteSetTheorems, TLAPS

-----------------------------------------------------------------------------
(* Types                                                                   *)

\* Replacing one row keeps the rows well formed.
LEMMA RowUpdateType ==
  ASSUME TypeOK, NEW s \in Sessions, NEW row \in Row, exec' = [exec EXCEPT ![s] = row]
  PROVE  exec' \in [Sessions -> Row]
BY DEF TypeOK

\* Stopping a set of rows keeps the rows well formed.
LEMMA StopRowsType ==
  ASSUME TypeOK, NEW S, S \subseteq Sessions, StopRows(S)
  PROVE  /\ exec' \in [Sessions -> Row]
         /\ FenceRows(S) => fenced' \subseteq Turns \cup {NoTurn}
BY DEF StopRows, FenceRows, TypeOK, Row

\* Every step keeps the shape of the state.
LEMMA TypeStep == TypeOK /\ [Next]_vars => TypeOK'
<1> SUFFICES ASSUME TypeOK, [Next]_vars PROVE TypeOK'
  OBVIOUS
<1> USE TurnAssumption, LimitAssumption DEF access, local
<1>1. ASSUME NEW t \in Turns, Mark(t) \/ AcquireCheck(t) \/ AcquireFail(t)
      PROVE  TypeOK'
  BY <1>1 DEF Mark, AcquireCheck, AcquireFail, TypeOK, TurnStates
<1>2. ASSUME NEW t \in Turns, AcquireCommit(t) PROVE TypeOK'
  <2>1. exec' \in [Sessions -> Row]
    BY <1>2 DEF AcquireCommit, TypeOK, Row
  <2>2. fenced' \subseteq Turns \cup {NoTurn}
    BY <1>2 DEF AcquireCommit, TypeOK, Row
  <2>3. TimeLeft \subseteq Nat
    BY DEF TimeLeft
  <2>4. deadline' \in [Turns -> Nat] /\ misread' \in [Turns -> Nat]
    BY <1>2, <2>3 DEF AcquireCommit, TypeOK
  <2> QED
    BY <1>2, <2>1, <2>2, <2>4 DEF AcquireCommit, TypeOK, TurnStates
<1>3. ASSUME NEW t \in Turns, HeartbeatSend(t) \/ HeartbeatFail(t) \/ WatchdogExpires(t)
      PROVE  TypeOK'
  BY <1>3 DEF HeartbeatSend, HeartbeatFail, WatchdogExpires, EndWatch, TypeOK, TurnStates
<1>4. ASSUME NEW t \in Turns, HeartbeatCommit(t) PROVE TypeOK'
  <2>1. exec' \in [Sessions -> Row]
    <3>1. CASE Renewable(t)
      <4>1. SessionOf[t] \in Sessions /\ exec[SessionOf[t]] \in Row /\ now + LeaseLen \in Nat
        BY DEF TypeOK
      <4>2. [exec[SessionOf[t]] EXCEPT !.expires = now + LeaseLen] \in Row
        BY <4>1 DEF Row
      <4> QED
        BY <1>4, <3>1, <4>1, <4>2, RowUpdateType DEF HeartbeatCommit
    <3>2. CASE ~Renewable(t)
      BY <1>4, <3>2 DEF HeartbeatCommit, TypeOK
    <3> QED
      BY <3>1, <3>2
  <2> QED
    BY <1>4, <2>1 DEF HeartbeatCommit, TypeOK
<1>5. ASSUME NEW t \in Turns, HeartbeatReply(t) PROVE TypeOK'
  BY <1>5 DEF HeartbeatReply, ConfirmedUntil, EndWatch, TypeOK, TurnStates
<1>6. ASSUME NEW t \in Turns, BindRuntime(t) \/ Release(t) PROVE TypeOK'
  <2>1. exec' \in [Sessions -> Row]
    <3>1. SessionOf[t] \in Sessions /\ exec[SessionOf[t]] \in Row
      BY DEF TypeOK
    <3>2. /\ [exec[SessionOf[t]] EXCEPT !.bound = TRUE] \in Row
          /\ [exec[SessionOf[t]] EXCEPT !.status = "finished"] \in Row
      BY <3>1 DEF Row
    <3>3. CASE BindRuntime(t)
      BY <3>1, <3>2, <3>3, RowUpdateType DEF BindRuntime
    <3>4. CASE Release(t)
      BY <3>1, <3>2, <3>4, RowUpdateType DEF Release, TypeOK
    <3> QED
      BY <1>6, <3>3, <3>4
  <2> QED
    BY <1>6, <2>1 DEF BindRuntime, Release, TypeOK, TurnStates
<1>7. ASSUME NEW t \in Turns, BeginRelease(t) \/ FreeSlot(t) PROVE TypeOK'
  BY <1>7 DEF BeginRelease, EndWatch, FreeSlot, TypeOK, TurnStates
<1>8. ASSUME NEW s \in Sessions, NEW u \in Users, Stop(s, u) PROVE TypeOK'
  BY <1>8, StopRowsType DEF Stop, FenceRows, TypeOK
<1>9. ASSUME NEW s \in Sessions, SweepExpired(s) PROVE TypeOK'
  BY <1>9, StopRowsType DEF SweepExpired, TypeOK
<1>10. ASSUME NEW u \in Users, Depart(u) PROVE TypeOK'
  BY <1>10, StopRowsType DEF Depart, FenceRows, TypeOK
<1>11. ASSUME NEW s \in Sessions, NEW u \in Users, RevokeEditor(s, u) PROVE TypeOK'
  BY <1>11, StopRowsType DEF RevokeEditor, FenceRows, TypeOK
<1>12. ASSUME NEW s \in Sessions, CloseSession(s) PROVE TypeOK'
  BY <1>12, StopRowsType DEF CloseSession, FenceRows, TypeOK
<1>13. ASSUME NEW u \in Users, Rejoin(u) PROVE TypeOK'
  BY <1>13 DEF Rejoin, TypeOK
<1>14. ASSUME NEW s \in Sessions, NEW u \in Users, GrantEditor(s, u) PROVE TypeOK'
  BY <1>14 DEF GrantEditor, TypeOK
<1>15. ASSUME NEW s \in Sessions, Restore(s) PROVE TypeOK'
  BY <1>15 DEF Restore, TypeOK
<1>16. ASSUME NEW r \in Replicas, Crash(r) PROVE TypeOK'
  BY <1>16 DEF Crash, TypeOK
<1>17. CASE Tick
  BY <1>17 DEF Tick, TypeOK
<1>18. CASE UNCHANGED vars
  BY <1>18 DEF vars, TypeOK
<1> QED
  BY <1>1, <1>2, <1>3, <1>4, <1>5, <1>6, <1>7, <1>8, <1>9, <1>10, <1>11, <1>12,
     <1>13, <1>14, <1>15, <1>16, <1>17, <1>18 DEF Next, TurnStep, Revocation

\* Type correctness: every step of the lease keeps the shape of the state.
THEOREM TypeCorrect == Spec => []TypeOK
<1>1. Init => TypeOK
  BY SessionAssumption DEF Init, TypeOK, NoRow, Row, TurnStates
<1> QED
  BY <1>1, TypeStep, PTL DEF Spec

-----------------------------------------------------------------------------
(* Rows, locks and permissions                                             *)

\* Every row belongs to an admitted turn of its session.
LEMMA RowStep == TypeOK /\ RowInv /\ [Next]_vars => RowInv'
<1> SUFFICES ASSUME TypeOK, RowInv, [Next]_vars PROVE RowInv'
  OBVIOUS
<1> USE TurnAssumption, LimitAssumption DEF access, local, RowInv, Admitted, Active
<1>1. ASSUME NEW t \in Turns, Mark(t) \/ AcquireCheck(t) \/ AcquireFail(t) PROVE RowInv'
  BY <1>1 DEF Mark, AcquireCheck, AcquireFail, LockedBy, TypeOK
<1>2. ASSUME NEW t \in Turns, AcquireCommit(t) PROVE RowInv'
  BY <1>2 DEF AcquireCommit, LockedBy, TypeOK
<1>3. ASSUME NEW t \in Turns, HeartbeatSend(t) \/ HeartbeatFail(t) \/ WatchdogExpires(t) PROVE RowInv'
  <2>1. UNCHANGED <<now, exec>>
    BY <1>3 DEF HeartbeatSend, HeartbeatFail, WatchdogExpires
  <2>2. pc' = pc \/ (pc[t] = "running" /\ pc' = [pc EXCEPT ![t] = "releasing"])
    BY <1>3 DEF HeartbeatSend, HeartbeatFail, WatchdogExpires, EndWatch
  <2> QED
    BY <2>1, <2>2 DEF TypeOK
<1>4. ASSUME NEW t \in Turns, HeartbeatCommit(t) PROVE RowInv'
  <2>1. CASE Renewable(t)
    BY <1>4, <2>1 DEF HeartbeatCommit, TypeOK, Row
  <2>2. CASE ~Renewable(t)
    BY <1>4, <2>2 DEF HeartbeatCommit
  <2> QED
    BY <2>1, <2>2
<1>5. ASSUME NEW t \in Turns, HeartbeatReply(t) PROVE RowInv'
  BY <1>5 DEF HeartbeatReply, EndWatch, TypeOK
<1>6. ASSUME NEW t \in Turns, BindRuntime(t) PROVE RowInv'
  BY <1>6 DEF BindRuntime, TypeOK, Row
<1>7. ASSUME NEW t \in Turns, Release(t) PROVE RowInv'
  <2>1. now' = now /\ pc[t] = "releasing" /\ pc' = [pc EXCEPT ![t] = "released"]
    BY <1>7 DEF Release
  <2>2. CASE exec' = exec
    BY <2>1, <2>2 DEF TypeOK
  <2>3. CASE exec' = [exec EXCEPT ![SessionOf[t]].status = "finished"]
    <3>1. \A s \in Sessions : /\ exec'[s].id = exec[s].id /\ exec'[s].expires = exec[s].expires
                              /\ exec'[s].status = "active" => exec[s].status = "active"
      BY <2>3 DEF TypeOK, Row
    <3> QED
      BY <2>1, <3>1 DEF TypeOK
  <2> QED
    BY <1>7, <2>2, <2>3 DEF Release
<1>8. ASSUME NEW t \in Turns, BeginRelease(t) \/ FreeSlot(t) PROVE RowInv'
  BY <1>8 DEF BeginRelease, EndWatch, FreeSlot, TypeOK
<1>9. ASSUME NEW S, StopRows(S), UNCHANGED <<now, pc>> PROVE RowInv'
  BY <1>9 DEF StopRows, TypeOK, Row
<1>10. ASSUME UNCHANGED <<now, exec, pc>> PROVE RowInv'
  BY <1>10
<1>11. CASE Tick
  BY <1>11 DEF Tick, TypeOK, Row
<1> QED
  BY <1>1, <1>2, <1>3, <1>4, <1>5, <1>6, <1>7, <1>8, <1>9, <1>10, <1>11
  DEF Next, TurnStep, Revocation, Stop, FenceRows, SweepExpired, Depart, RevokeEditor, CloseSession,
      Rejoin, GrantEditor, Restore, Crash, Tick, vars

\* A session that is not live stays so unless an admission commits.
LEMMA LiveStep ==
  ASSUME TypeOK, RowInv, [Next]_vars, NEW s \in Sessions,
         ~Live(s), \A t \in Turns : ~(AcquireCommit(t) /\ SessionOf[t] = s)
  PROVE  ~Live(s)'
<1> USE TurnAssumption, LimitAssumption DEF access, local, Live, Active
<1>1. ASSUME NEW t \in Turns, AcquireCommit(t) PROVE ~Live(s)'
  BY <1>1 DEF AcquireCommit, TypeOK, Row
<1>2. ASSUME NEW t \in Turns, HeartbeatCommit(t) PROVE ~Live(s)'
  <2>1. CASE Renewable(t)
    BY <1>2, <2>1 DEF HeartbeatCommit, Renewable, IsCurrent, TypeOK, Row
  <2>2. CASE ~Renewable(t)
    BY <1>2, <2>2 DEF HeartbeatCommit
  <2> QED
    BY <2>1, <2>2
<1>3. ASSUME NEW t \in Turns, BindRuntime(t) PROVE ~Live(s)'
  BY <1>3 DEF BindRuntime, TypeOK, Row
<1>4. ASSUME NEW t \in Turns, Release(t) PROVE ~Live(s)'
  BY <1>4 DEF Release, TypeOK, Row
<1>5. ASSUME NEW S, StopRows(S), UNCHANGED now PROVE ~Live(s)'
  BY <1>5 DEF StopRows, TypeOK, Row
<1>6. ASSUME UNCHANGED <<exec, now>> PROVE ~Live(s)'
  BY <1>6
<1>7. CASE Tick
  BY <1>7 DEF Tick, TypeOK, Row
<1> QED
  BY <1>1, <1>2, <1>3, <1>4, <1>5, <1>6, <1>7
  DEF Next, TurnStep, Revocation, Stop, FenceRows, SweepExpired, Depart, RevokeEditor, CloseSession,
      Rejoin, GrantEditor, Restore, Crash, vars, Mark, AcquireCheck, AcquireFail,
      HeartbeatSend, HeartbeatReply, HeartbeatFail, WatchdogExpires, BeginRelease, FreeSlot

\* An open transaction was open before, or has just passed its checks.
LEMMA LockOrigin ==
  ASSUME TypeOK, [Next]_vars, NEW x \in Turns, LockedBy(x)'
  PROVE  LockedBy(x) \/ (AcquireCheck(x) /\ Admissible(x))
<1> USE TurnAssumption DEF access, local, LockedBy, Alive
<1>1. ASSUME NEW t \in Turns, Mark(t) PROVE LockedBy(x)
  BY <1>1 DEF Mark, TypeOK
<1>2. ASSUME NEW t \in Turns, AcquireCheck(t)
      PROVE  LockedBy(x) \/ (AcquireCheck(x) /\ Admissible(x))
  BY <1>2 DEF AcquireCheck, TypeOK
<1>3. ASSUME NEW t \in Turns, AcquireFail(t) \/ AcquireCommit(t) PROVE LockedBy(x)
  BY <1>3 DEF AcquireFail, AcquireCommit, TypeOK
<1>4. ASSUME NEW t \in Turns, HeartbeatReply(t) \/ WatchdogExpires(t) PROVE LockedBy(x)
  BY <1>4 DEF HeartbeatReply, WatchdogExpires, EndWatch, TypeOK
<1>5. ASSUME NEW t \in Turns, BeginRelease(t) \/ Release(t) \/ FreeSlot(t) PROVE LockedBy(x)
  BY <1>5 DEF BeginRelease, EndWatch, Release, FreeSlot, TypeOK
<1>6. ASSUME UNCHANGED <<pc, gone>> PROVE LockedBy(x)
  BY <1>6
<1>7. ASSUME NEW r \in Replicas, Crash(r) PROVE LockedBy(x)
  BY <1>7 DEF Crash
<1> QED
  BY <1>1, <1>2, <1>3, <1>4, <1>5, <1>6, <1>7
  DEF Next, TurnStep, Revocation, Stop, FenceRows, SweepExpired, Depart, RevokeEditor, CloseSession,
      Rejoin, GrantEditor, Restore, Tick, vars, HeartbeatSend, HeartbeatCommit, HeartbeatFail,
      BindRuntime

\* A permission that an open transaction locks is not withdrawn, and the one of an
\* active row is withdrawn only together with the row.
LEMMA PermissionStep ==
  ASSUME TypeOK, RowInv, [Next]_vars, NEW x \in Turns, Permitted(x)
  PROVE  /\ LockedBy(x) => Permitted(x)'
         /\ (RowOf(x) /\ Active(SessionOf[x])) => Permitted(x)' \/ ~Active(SessionOf[x])'
<1> USE TurnAssumption DEF Permitted, Access
<1>1. ASSUME NEW u \in Users, Depart(u)
      PROVE  /\ LockedBy(x) => Permitted(x)'
             /\ (RowOf(x) /\ Active(SessionOf[x])) => Permitted(x)' \/ ~Active(SessionOf[x])'
  BY <1>1 DEF Depart, MemberUnlocked, FenceRows, StopRows, RowOf, Active, TypeOK, Row
<1>2. ASSUME NEW s \in Sessions, NEW u \in Users, RevokeEditor(s, u)
      PROVE  /\ LockedBy(x) => Permitted(x)'
             /\ (RowOf(x) /\ Active(SessionOf[x])) => Permitted(x)' \/ ~Active(SessionOf[x])'
  BY <1>2 DEF RevokeEditor, SessionUnlocked, FenceRows, StopRows, RowOf, Active, TypeOK, Row
<1>3. ASSUME NEW s \in Sessions, CloseSession(s)
      PROVE  /\ LockedBy(x) => Permitted(x)'
             /\ (RowOf(x) /\ Active(SessionOf[x])) => Permitted(x)' \/ ~Active(SessionOf[x])'
  BY <1>3 DEF CloseSession, SessionUnlocked, FenceRows, StopRows, RowOf, Active, TypeOK, Row
<1>4. ASSUME NEW u \in Users, Rejoin(u) PROVE Permitted(x)'
  BY <1>4 DEF Rejoin
<1>5. ASSUME NEW s \in Sessions, NEW u \in Users, GrantEditor(s, u) PROVE Permitted(x)'
  BY <1>5 DEF GrantEditor, TypeOK
<1>6. ASSUME NEW s \in Sessions, Restore(s) PROVE Permitted(x)'
  BY <1>6 DEF Restore
<1>7. ASSUME UNCHANGED access PROVE Permitted(x)'
  BY <1>7 DEF access
<1> QED
  BY <1>1, <1>2, <1>3, <1>4, <1>5, <1>6, <1>7
  DEF Next, TurnStep, Revocation, Stop, SweepExpired, Crash, Tick, vars, Mark, AcquireCheck,
      AcquireFail, AcquireCommit, HeartbeatSend, HeartbeatCommit, HeartbeatReply, HeartbeatFail,
      WatchdogExpires, BindRuntime, BeginRelease, Release, FreeSlot

\* The checks of an open admission still hold after any step.
LEMMA LockStep == TypeOK /\ RowInv /\ LockInv /\ [Next]_vars => LockInv'
<1> SUFFICES ASSUME TypeOK, RowInv, LockInv, [Next]_vars,
                    NEW x \in Turns, LockedBy(x)'
             PROVE  /\ Permitted(x)'
                    /\ ~Live(SessionOf[x])'
                    /\ \A y \in Turns : LockedBy(y)' => x = y
  BY DEF LockInv
<1>1. CASE LockedBy(x)
  <2>1. Permitted(x)'
    BY <1>1, PermissionStep DEF LockInv
  <2>2. \A t \in Turns : ~AcquireCommit(t)
    <3> SUFFICES ASSUME NEW t \in Turns, AcquireCommit(t) PROVE FALSE
      OBVIOUS
    <3>1. t = x
      BY <1>1 DEF AcquireCommit, LockInv
    <3> QED
      BY <3>1 DEF AcquireCommit, LockedBy, TypeOK
  <2>3. ~Live(SessionOf[x])'
    BY <1>1, <2>2, LiveStep, TurnAssumption DEF LockInv
  <2>4. ASSUME NEW y \in Turns, LockedBy(y)' PROVE x = y
    BY <1>1, <2>4, LockOrigin DEF LockInv, AcquireCheck, AdmissionLockFree
  <2> QED
    BY <2>1, <2>3, <2>4
<1>2. CASE AcquireCheck(x) /\ Admissible(x)
  <2>1. Permitted(x)' /\ ~Live(SessionOf[x])'
    BY <1>2 DEF AcquireCheck, Admissible, access, Permitted, Access, Live, Active
  <2>2. ASSUME NEW y \in Turns, LockedBy(y)' PROVE x = y
    BY <1>2, <2>2 DEF AcquireCheck, AdmissionLockFree, LockedBy, Alive, TypeOK
  <2> QED
    BY <2>1, <2>2
<1> QED
  BY <1>1, <1>2, LockOrigin

\* A permission and the row that depends on it end together.
LEMMA PermStep ==
  TypeOK /\ RowInv /\ LockInv /\ NoUnpermittedHolder /\ [Next]_vars => NoUnpermittedHolder'
<1> SUFFICES ASSUME TypeOK, RowInv, LockInv, NoUnpermittedHolder, [Next]_vars,
                    NEW x \in Turns, RowOf(x)', Active(SessionOf[x])'
             PROVE  Permitted(x)'
  BY DEF NoUnpermittedHolder
<1>1. CASE RowOf(x) /\ Active(SessionOf[x])
  BY <1>1, PermissionStep DEF NoUnpermittedHolder
<1>2. ASSUME NEW t \in Turns, AcquireCommit(t), ~(RowOf(x) /\ Active(SessionOf[x])) PROVE Permitted(x)'
  <2>1. x = t
    BY <1>2, TurnAssumption DEF AcquireCommit, RowOf, Active, TypeOK, Row
  <2>2. Permitted(x)
    BY <1>2, <2>1 DEF AcquireCommit, LockInv
  <2> QED
    BY <1>2, <2>2 DEF AcquireCommit, access, Permitted, Access
<1>3. ASSUME \A t \in Turns : ~AcquireCommit(t) PROVE RowOf(x) /\ Active(SessionOf[x])
  <2> USE TurnAssumption DEF RowOf, Active
  <2>1. ASSUME NEW t \in Turns, HeartbeatCommit(t) PROVE RowOf(x) /\ Active(SessionOf[x])
    <3>1. CASE Renewable(t)
      BY <2>1, <3>1 DEF HeartbeatCommit, Renewable, IsCurrent, Live, TypeOK, Row
    <3>2. CASE ~Renewable(t)
      BY <2>1, <3>2 DEF HeartbeatCommit
    <3> QED
      BY <3>1, <3>2
  <2>2. ASSUME NEW t \in Turns, BindRuntime(t) PROVE RowOf(x) /\ Active(SessionOf[x])
    BY <2>2 DEF BindRuntime, IsCurrent, Live, TypeOK, Row
  <2>3. ASSUME NEW t \in Turns, Release(t) PROVE RowOf(x) /\ Active(SessionOf[x])
    BY <2>3 DEF Release, TypeOK, Row
  <2>4. ASSUME NEW S, StopRows(S) PROVE RowOf(x) /\ Active(SessionOf[x])
    BY <2>4 DEF StopRows, TypeOK, Row
  <2>5. ASSUME UNCHANGED exec PROVE RowOf(x) /\ Active(SessionOf[x])
    BY <2>5
  <2> QED
    BY <1>3, <2>1, <2>2, <2>3, <2>4, <2>5
    DEF Next, TurnStep, Revocation, Stop, FenceRows, SweepExpired, Depart, RevokeEditor, CloseSession,
        Rejoin, GrantEditor, Restore, Crash, Tick, vars, Mark, AcquireCheck, AcquireFail,
        HeartbeatSend, HeartbeatReply, HeartbeatFail, WatchdogExpires, BeginRelease, FreeSlot
<1> QED
  BY <1>1, <1>2, <1>3

-----------------------------------------------------------------------------
(* Watchdogs                                                               *)

\* The local deadlines stay within what the database granted.
LEMMA WatchStep ==
  TypeOK /\ RowInv /\ LockInv /\ WatchInv /\ [Next]_vars => WatchInv'
<1> SUFFICES ASSUME TypeOK, RowInv, LockInv, WatchInv, [Next]_vars PROVE WatchInv'
  OBVIOUS
<1> USE TurnAssumption, LimitAssumption DEF access, local, OwnRow, RowOf, Active
<1>1. ASSUME NEW t \in Turns, Mark(t) \/ AcquireCheck(t) \/ AcquireFail(t) PROVE WatchInv'
  BY <1>1 DEF Mark, AcquireCheck, AcquireFail, LockedBy, TypeOK, WatchInv
<1>2. ASSUME NEW t \in Turns, AcquireCommit(t) PROVE WatchInv'
  <2> SUFFICES ASSUME NEW x \in Turns
               PROVE  /\ hb'[x] # "idle" => hbStart'[x] <= now'
                      /\ hb'[x] = "renewed" /\ pc'[x] = "running" =>
                           IF OwnRow(x)' THEN hbStart'[x] + LeaseLen <= exec'[SessionOf[x]].expires
                           ELSE x \in fenced' \/ hbStart'[x] + LeaseLen <= now'
                      /\ pc'[x] = "running" =>
                           IF misread'[x] # 0 THEN deadline'[x] <= misread'[x] + Skew
                           ELSE IF OwnRow(x)' THEN deadline'[x] <= exec'[SessionOf[x]].expires
                           ELSE x \in fenced' \/ deadline'[x] <= now'
    BY DEF WatchInv
  <2>1. /\ now \in Nat /\ now + LeaseLen \in Nat
        /\ hbStart[x] \in Nat /\ deadline[x] \in Nat
        /\ exec[SessionOf[x]].expires \in Nat
    BY DEF TypeOK, Row
  <2>2. CASE x = t
    <3>1. PICK left \in TimeLeft :
            /\ deadline' = [deadline EXCEPT ![t] = now + left]
            /\ misread' = [misread EXCEPT ![t] = IF left > LeaseLen THEN now + LeaseLen ELSE 0]
      BY <1>2 DEF AcquireCommit
    <3>2. left \in Nat /\ left <= LeaseLen + Skew
      BY DEF TimeLeft
    <3>3. /\ deadline'[t] = now + left
          /\ misread'[t] = IF left > LeaseLen THEN now + LeaseLen ELSE 0
      BY <3>1 DEF TypeOK
    <3>4. IF misread'[t] # 0 THEN deadline'[t] <= misread'[t] + Skew
          ELSE deadline'[t] <= now + LeaseLen
      BY <2>1, <3>2, <3>3
    <3>5. OwnRow(t)' /\ exec'[SessionOf[t]].expires = now + LeaseLen
      BY <1>2 DEF AcquireCommit, TypeOK
    <3>6. hb' = hb /\ hbStart' = hbStart /\ now' = now
      BY <1>2 DEF AcquireCommit
    <3>7. hb[t] # "idle" => hbStart[t] <= now
      BY DEF WatchInv
    <3> QED
      BY <2>1, <2>2, <3>4, <3>5, <3>6, <3>7
  <2>3. CASE x # t /\ SessionOf[x] # SessionOf[t]
    BY <1>2, <2>1, <2>3 DEF AcquireCommit, TypeOK, WatchInv
  <2>4. CASE x # t /\ SessionOf[x] = SessionOf[t]
    <3>1. ~OwnRow(x)'
      BY <1>2, <2>4 DEF AcquireCommit, TypeOK
    <3>2. ~Live(SessionOf[x])
      BY <1>2, <2>4 DEF AcquireCommit, LockInv
    <3>3. OwnRow(x) => exec[SessionOf[x]].expires <= now
      BY <2>1, <3>2 DEF Live
    <3>4. fenced' = fenced
      BY <1>2 DEF AcquireCommit
    <3>5. /\ pc'[x] = pc[x] /\ hb' = hb /\ hbStart' = hbStart /\ deadline'[x] = deadline[x]
          /\ misread'[x] = misread[x] /\ now' = now
      BY <1>2, <2>4 DEF AcquireCommit, TypeOK
    <3> QED
      BY <2>1, <3>1, <3>3, <3>4, <3>5 DEF WatchInv
  <2> QED
    BY <2>2, <2>3, <2>4
<1>3. ASSUME NEW t \in Turns, HeartbeatSend(t) \/ HeartbeatFail(t) \/ WatchdogExpires(t) PROVE WatchInv'
  BY <1>3 DEF HeartbeatSend, HeartbeatFail, WatchdogExpires, EndWatch, TypeOK, WatchInv
<1>4. ASSUME NEW t \in Turns, HeartbeatCommit(t) PROVE WatchInv'
  <2>1. CASE Renewable(t)
    <3> SUFFICES ASSUME NEW x \in Turns
                 PROVE  /\ hb'[x] # "idle" => hbStart'[x] <= now'
                        /\ hb'[x] = "renewed" /\ pc'[x] = "running" =>
                             IF OwnRow(x)' THEN hbStart'[x] + LeaseLen <= exec'[SessionOf[x]].expires
                             ELSE x \in fenced' \/ hbStart'[x] + LeaseLen <= now'
                        /\ pc'[x] = "running" =>
                             IF misread'[x] # 0 THEN deadline'[x] <= misread'[x] + Skew
                             ELSE IF OwnRow(x)' THEN deadline'[x] <= exec'[SessionOf[x]].expires
                             ELSE x \in fenced' \/ deadline'[x] <= now'
      BY DEF WatchInv
    <3>1. /\ now \in Nat /\ now + LeaseLen \in Nat
          /\ hbStart[x] \in Nat /\ deadline[x] \in Nat
          /\ exec[SessionOf[x]] \in Row /\ exec[SessionOf[x]].expires \in Nat
      BY DEF TypeOK, Row
    <3>2. RowOf(t) /\ Live(SessionOf[t])
      BY <2>1 DEF Renewable, IsCurrent
    <3>3. CASE x = t
      <4>1. OwnRow(t)' /\ exec'[SessionOf[t]].expires = now + LeaseLen
        BY <1>4, <2>1, <3>2 DEF HeartbeatCommit, Live, TypeOK, Row
      <4>2. hbStart[t] <= now
        BY <1>4 DEF HeartbeatCommit, WatchInv
      <4>3. OwnRow(t)
        BY <3>2 DEF Live
      <4>4. pc[t] = "running" => IF misread[t] # 0 THEN deadline[t] <= misread[t] + Skew
                                 ELSE deadline[t] <= exec[SessionOf[t]].expires
        BY <4>3 DEF WatchInv
      <4>5. pc' = pc /\ hbStart' = hbStart /\ deadline' = deadline /\ misread' = misread /\ now' = now
        BY <1>4 DEF HeartbeatCommit
      <4>6. exec[SessionOf[t]].expires <= now + LeaseLen
        BY DEF RowInv
      <4> QED
        BY <3>1, <3>3, <4>1, <4>2, <4>4, <4>5, <4>6
    <3>4. CASE x # t
      <4>1. OwnRow(x)' = OwnRow(x) /\ (OwnRow(x) => exec'[SessionOf[x]].expires = exec[SessionOf[x]].expires)
        BY <1>4, <2>1, <3>2, <3>4 DEF HeartbeatCommit, TypeOK, Row
      <4>2. /\ hb'[x] = hb[x] /\ pc' = pc /\ hbStart' = hbStart /\ deadline' = deadline
            /\ misread' = misread /\ now' = now /\ fenced' = fenced
        BY <1>4, <2>1, <3>4 DEF HeartbeatCommit, TypeOK
      <4> QED
        BY <4>1, <4>2 DEF WatchInv
    <3> QED
      BY <3>3, <3>4
  <2>2. CASE ~Renewable(t)
    BY <1>4, <2>2 DEF HeartbeatCommit, TypeOK, WatchInv
  <2> QED
    BY <2>1, <2>2
<1>5. ASSUME NEW t \in Turns, HeartbeatReply(t) PROVE WatchInv'
  BY <1>5 DEF HeartbeatReply, ConfirmedUntil, EndWatch, TypeOK, WatchInv
<1>6. ASSUME NEW t \in Turns, BindRuntime(t) PROVE WatchInv'
  BY <1>6 DEF BindRuntime, TypeOK, Row, WatchInv
<1>7. ASSUME NEW t \in Turns, Release(t) PROVE WatchInv'
  <2>1. /\ pc[t] = "releasing" /\ pc' = [pc EXCEPT ![t] = "released"]
        /\ UNCHANGED <<now, deadline, hb, hbStart, fenced, misread>>
    BY <1>7 DEF Release
  <2>2. ASSUME NEW x \in Turns, x # t
        PROVE  /\ OwnRow(x)' = OwnRow(x)
               /\ OwnRow(x) => exec'[SessionOf[x]].expires = exec[SessionOf[x]].expires
    <3>1. CASE exec' = exec
      BY <3>1
    <3>2. CASE RowOf(t) /\ exec' = [exec EXCEPT ![SessionOf[t]].status = "finished"]
      <4>1. CASE SessionOf[x] = SessionOf[t]
        BY <2>2, <3>2, <4>1 DEF TypeOK, Row
      <4>2. CASE SessionOf[x] # SessionOf[t]
        BY <3>2, <4>2 DEF TypeOK, Row
      <4> QED
        BY <4>1, <4>2
    <3> QED
      BY <1>7, <3>1, <3>2 DEF Release
  <2>3. ASSUME NEW x \in Turns, x # t
        PROVE  pc'[x] = pc[x]
    BY <2>1, <2>3 DEF TypeOK
  <2>4. pc'[t] # "running"
    BY <2>1 DEF TypeOK
  <2>5. \A x \in Turns : hb'[x] # "idle" => hbStart'[x] <= now'
    BY <2>1 DEF WatchInv
  <2> QED
    BY <2>1, <2>2, <2>3, <2>4, <2>5 DEF WatchInv
<1>8. ASSUME NEW t \in Turns, BeginRelease(t) \/ FreeSlot(t) PROVE WatchInv'
  BY <1>8 DEF BeginRelease, EndWatch, FreeSlot, TypeOK, WatchInv
<1>9. ASSUME NEW S, FenceRows(S), UNCHANGED <<now, pc, deadline, hb, hbStart, misread>> PROVE WatchInv'
  BY <1>9 DEF FenceRows, StopRows, TypeOK, Row, WatchInv
<1>10. ASSUME UNCHANGED <<now, exec, pc, deadline, hb, hbStart, fenced, misread>> PROVE WatchInv'
  BY <1>10 DEF WatchInv
<1>11. CASE Tick
  BY <1>11 DEF Tick, TypeOK, WatchInv
<1>12. ASSUME NEW s \in Sessions, SweepExpired(s) PROVE WatchInv'
  BY <1>12 DEF SweepExpired, Sweepable, Expired, StopRows, TypeOK, Row, WatchInv
<1> QED
  BY <1>1, <1>2, <1>3, <1>4, <1>5, <1>6, <1>7, <1>8, <1>9, <1>10, <1>11, <1>12
  DEF Next, TurnStep, Revocation, Stop, Depart, RevokeEditor, CloseSession,
      Rejoin, GrantEditor, Restore, Crash, vars

-----------------------------------------------------------------------------
(* Caps                                                                    *)

\* Only an admission changes whose generation a row is.
LEMMA IdStep ==
  ASSUME TypeOK, [Next]_vars, \A t \in Turns : ~AcquireCommit(t), NEW s \in Sessions
  PROVE  exec'[s].id = exec[s].id
<1> USE TurnAssumption DEF access, local
<1>1. ASSUME NEW t \in Turns, HeartbeatCommit(t) PROVE exec'[s].id = exec[s].id
  <2>1. CASE Renewable(t)
    <3>1. /\ SessionOf[t] \in Sessions /\ exec \in [Sessions -> Row]
          /\ exec' = [exec EXCEPT ![SessionOf[t]].expires = now + LeaseLen]
      BY <1>1, <2>1 DEF HeartbeatCommit, TypeOK
    <3> QED
      BY <3>1 DEF Row
  <2>2. CASE ~Renewable(t)
    BY <1>1, <2>2 DEF HeartbeatCommit
  <2> QED
    BY <2>1, <2>2
<1>2. ASSUME NEW t \in Turns, BindRuntime(t) PROVE exec'[s].id = exec[s].id
  BY <1>2 DEF BindRuntime, TypeOK, Row
<1>3. ASSUME NEW t \in Turns, Release(t) PROVE exec'[s].id = exec[s].id
  BY <1>3 DEF Release, TypeOK, Row
<1>4. ASSUME NEW S, StopRows(S) PROVE exec'[s].id = exec[s].id
  BY <1>4 DEF StopRows, TypeOK, Row
<1>5. ASSUME UNCHANGED exec PROVE exec'[s].id = exec[s].id
  BY <1>5
<1> QED
  BY <1>1, <1>2, <1>3, <1>4, <1>5
  DEF Next, TurnStep, Revocation, Stop, FenceRows, SweepExpired, Depart, RevokeEditor, CloseSession,
      Rejoin, GrantEditor, Restore, Crash, Tick, vars, Mark, AcquireCheck, AcquireFail,
      HeartbeatSend, HeartbeatReply, HeartbeatFail, WatchdogExpires, BeginRelease, FreeSlot

\* Beside an admission, a step adds no live session, to the tenant or to a user.
LEMMA LiveShrinks ==
  ASSUME TypeOK, RowInv, [Next]_vars, \A t \in Turns : ~AcquireCommit(t)
  PROVE  /\ LiveSessions' \subseteq LiveSessions
         /\ \A u : LiveOf(u)' \subseteq LiveOf(u)
<1>1. ASSUME NEW s \in Sessions, Live(s)' PROVE Live(s)
  BY <1>1, LiveStep
<1>2. ASSUME NEW s \in Sessions PROVE exec'[s].id = exec[s].id
  BY IdStep
<1> QED
  BY <1>1, <1>2 DEF LiveSessions, LiveOf

\* Only an admission makes a turn one that was ever granted its session.
LEMMA AdmittedStep ==
  ASSUME TypeOK, [Next]_vars, \A t \in Turns : ~AcquireCommit(t), NEW x \in Turns
  PROVE  Admitted(x)' = Admitted(x)
<1> USE DEF access, local, Admitted
<1>1. ASSUME NEW t \in Turns, Mark(t) \/ AcquireCheck(t) \/ AcquireFail(t) PROVE Admitted(x)' = Admitted(x)
  BY <1>1 DEF Mark, AcquireCheck, AcquireFail, LockedBy, TypeOK
<1>2. ASSUME NEW t \in Turns, HeartbeatReply(t) \/ WatchdogExpires(t) PROVE Admitted(x)' = Admitted(x)
  BY <1>2 DEF HeartbeatReply, WatchdogExpires, EndWatch, TypeOK
<1>3. ASSUME NEW t \in Turns, BeginRelease(t) \/ Release(t) \/ FreeSlot(t) PROVE Admitted(x)' = Admitted(x)
  BY <1>3 DEF BeginRelease, EndWatch, Release, FreeSlot, TypeOK
<1>4. ASSUME UNCHANGED pc PROVE Admitted(x)' = Admitted(x)
  BY <1>4
<1> QED
  BY <1>1, <1>2, <1>3, <1>4
  DEF Next, TurnStep, Revocation, Stop, FenceRows, SweepExpired, Depart, RevokeEditor, CloseSession,
      Rejoin, GrantEditor, Restore, Crash, Tick, vars, HeartbeatSend, HeartbeatCommit,
      HeartbeatFail, BindRuntime

\* The live sessions are finitely many, so that their number is a natural number.
LEMMA LiveFinite ==
  /\ IsFiniteSet(LiveSessions) /\ Cardinality(LiveSessions) \in Nat
  /\ \A u : IsFiniteSet(LiveOf(u)) /\ Cardinality(LiveOf(u)) \in Nat
BY SessionAssumption, FS_Subset, FS_CardinalityType DEF LiveSessions, LiveOf

\* The same after a step.
LEMMA LiveFiniteNext ==
  /\ IsFiniteSet(LiveSessions') /\ Cardinality(LiveSessions') \in Nat
  /\ \A u : IsFiniteSet(LiveOf(u)') /\ Cardinality(LiveOf(u)') \in Nat
BY SessionAssumption, FS_Subset, FS_CardinalityType DEF LiveSessions, LiveOf

\* The room an open admission found is still there when it commits.
LEMMA RoomStep ==
  TypeOK /\ RowInv /\ LockInv /\ RoomInv /\ [Next]_vars => RoomInv'
<1> SUFFICES ASSUME TypeOK, RowInv, LockInv, RoomInv, [Next]_vars,
                    NEW x \in Turns, LockedBy(x)'
             PROVE  /\ Cardinality(LiveSessions') < PerTenant
                    /\ Cardinality(LiveOf(UserOf[x])') < PerUser
  BY DEF RoomInv
<1> USE LimitAssumption
<1>1. \A t \in Turns : ~AcquireCommit(t)
  <2> SUFFICES ASSUME NEW t \in Turns, AcquireCommit(t) PROVE FALSE
    OBVIOUS
  <2>1. CASE LockedBy(x)
    <3>1. t = x
      BY <2>1 DEF AcquireCommit, LockInv
    <3> QED
      BY <3>1 DEF AcquireCommit, LockedBy, TypeOK
  <2>2. CASE AcquireCheck(x)
    BY <2>2 DEF AcquireCheck, AcquireCommit, AdmissionLockFree
  <2> QED
    BY <2>1, <2>2, LockOrigin
<1>2. LiveSessions' \subseteq LiveSessions /\ LiveOf(UserOf[x])' \subseteq LiveOf(UserOf[x])
  BY <1>1, LiveShrinks
<1>3. Cardinality(LiveSessions') <= Cardinality(LiveSessions)
  BY <1>2, LiveFinite, FS_Subset
<1>4. Cardinality(LiveOf(UserOf[x])') <= Cardinality(LiveOf(UserOf[x]))
  BY <1>2, LiveFinite, FS_Subset
<1>5. Cardinality(LiveSessions) < PerTenant /\ Cardinality(LiveOf(UserOf[x])) < PerUser
  BY LockOrigin DEF RoomInv, Admissible
<1> QED
  BY <1>3, <1>4, <1>5, LiveFinite, LiveFiniteNext

\* The caps hold after any step.
LEMMA CapsStep ==
  TypeOK /\ RowInv /\ LockInv /\ RoomInv /\ CapsHold /\ [Next]_vars => CapsHold'
<1> SUFFICES ASSUME TypeOK, RowInv, LockInv, RoomInv, CapsHold, [Next]_vars
             PROVE  /\ Cardinality(LiveSessions') <= PerTenant
                    /\ \A u \in Users : Cardinality(LiveOf(u)') <= PerUser
  BY DEF CapsHold
<1> USE LimitAssumption
<1>1. CASE \A t \in Turns : ~AcquireCommit(t)
  <2>1. LiveSessions' \subseteq LiveSessions /\ \A u : LiveOf(u)' \subseteq LiveOf(u)
    BY <1>1, LiveShrinks
  <2>2. Cardinality(LiveSessions') <= Cardinality(LiveSessions)
    BY <2>1, LiveFinite, FS_Subset
  <2>3. \A u : Cardinality(LiveOf(u)') <= Cardinality(LiveOf(u))
    BY <2>1, LiveFinite, FS_Subset
  <2> QED
    BY <2>2, <2>3, LiveFinite, LiveFiniteNext DEF CapsHold
<1>2. ASSUME NEW t \in Turns, AcquireCommit(t)
      PROVE  /\ Cardinality(LiveSessions') <= PerTenant
             /\ \A u \in Users : Cardinality(LiveOf(u)') <= PerUser
  <2> DEFINE s == SessionOf[t]
  <2>1. s \in Sessions /\ ~Live(s)
    BY <1>2, TurnAssumption DEF AcquireCommit, LockInv
  <2>2. /\ \A x \in Sessions : x # s => exec'[x] = exec[x]
        /\ exec'[s].id = t
        /\ now' = now
    BY <1>2, <2>1 DEF AcquireCommit, TypeOK
  <2>3. LiveSessions' \subseteq LiveSessions \cup {s}
    BY <2>2 DEF LiveSessions, Live, Active
  <2>4. \A u : LiveOf(u)' \subseteq LiveOf(u) \cup (IF UserOf[t] = u THEN {s} ELSE {})
    BY <2>2, <2>3 DEF LiveOf, LiveSessions, Live, Active
  <2>5. Cardinality(LiveSessions) < PerTenant /\ Cardinality(LiveOf(UserOf[t])) < PerUser
    BY <1>2 DEF RoomInv, AcquireCommit
  <2>6. Cardinality(LiveSessions') <= PerTenant
    <3>1. s \notin LiveSessions
      BY <2>1 DEF LiveSessions
    <3>2. /\ IsFiniteSet(LiveSessions \cup {s})
          /\ Cardinality(LiveSessions \cup {s}) = Cardinality(LiveSessions) + 1
      BY <3>1, LiveFinite, FS_AddElement
    <3>3. Cardinality(LiveSessions') <= Cardinality(LiveSessions \cup {s})
      BY <2>3, <3>2, FS_Subset
    <3> QED
      BY <2>5, <3>2, <3>3, LiveFinite, LiveFiniteNext
  <2>7. ASSUME NEW u \in Users PROVE Cardinality(LiveOf(u)') <= PerUser
    <3>1. CASE UserOf[t] = u
      <4>1. s \notin LiveOf(u)
        BY <2>1 DEF LiveOf, LiveSessions
      <4>2. /\ IsFiniteSet(LiveOf(u) \cup {s})
            /\ Cardinality(LiveOf(u) \cup {s}) = Cardinality(LiveOf(u)) + 1
        BY <4>1, LiveFinite, FS_AddElement
      <4>3. Cardinality(LiveOf(u)') <= Cardinality(LiveOf(u) \cup {s})
        BY <2>4, <3>1, <4>2, FS_Subset
      <4> QED
        BY <2>5, <3>1, <4>2, <4>3, LiveFinite, LiveFiniteNext
    <3>2. CASE UserOf[t] # u
      <4>1. Cardinality(LiveOf(u)') <= Cardinality(LiveOf(u))
        BY <2>4, <3>2, LiveFinite, FS_Subset
      <4> QED
        BY <4>1, LiveFinite, LiveFiniteNext DEF CapsHold
    <3> QED
      BY <3>1, <3>2
  <2> QED
    BY <2>6, <2>7
<1> QED
  BY <1>1, <1>2

-----------------------------------------------------------------------------
(* The inductive invariant and what follows from it                        *)

\* The whole invariant holds at first and is kept by every step: types, rows, open
\* admissions, permissions, watchdogs and caps only hold together.
THEOREM LeaseCorrect == Spec => []LeaseInvariant
<1>1. Init => LeaseInvariant
  <2> SUFFICES ASSUME Init PROVE LeaseInvariant
    OBVIOUS
  <2> USE TurnAssumption, SessionAssumption, LimitAssumption
  <2>1. TypeOK
    BY DEF Init, TypeOK, NoRow, Row, TurnStates
  <2>2. RowInv /\ NoUnpermittedHolder
    BY DEF Init, RowInv, NoUnpermittedHolder, RowOf, Active, NoRow
  <2>3. LockInv /\ RoomInv /\ WatchInv
    BY DEF Init, LockInv, RoomInv, WatchInv, LockedBy
  <2>4. LiveSessions = {} /\ \A u : LiveOf(u) = {}
    BY DEF Init, LiveSessions, LiveOf, Live, Active, NoRow
  <2>5. CapsHold
    <3>1. Cardinality(LiveSessions) = 0 /\ \A u : Cardinality(LiveOf(u)) = 0
      BY <2>4, FS_EmptySet, Zenon
    <3>2. 0 <= PerTenant /\ 0 <= PerUser
      OBVIOUS
    <3> QED
      BY <3>1, <3>2, Zenon DEF CapsHold
  <2> QED
    BY <2>1, <2>2, <2>3, <2>5 DEF LeaseInvariant
<1>2. TypeOK /\ [Next]_vars => TypeOK'
  BY TypeStep
<1>3. LeaseInvariant /\ [Next]_vars => LeaseInvariant'
  BY <1>2, RowStep, LockStep, PermStep, WatchStep, RoomStep, CapsStep DEF LeaseInvariant
<1> QED
  BY <1>1, <1>3, PTL DEF Spec

\* A turn whose watchdog has not fired holds its session, unless someone stopped it or
\* its first deadline was misread from a late wall clock, and then by less than the
\* skew: with equal clocks no turn goes on past its lease, whatever becomes of its
\* heartbeats.
THEOREM LocalAuthorityHolds == Spec => []LocalAuthority
<1>1. LeaseInvariant => LocalAuthority
  <2> SUFFICES ASSUME LeaseInvariant, NEW t \in Turns, Armed(t), ~Holds(t), t \notin fenced
               PROVE  misread[t] # 0 /\ now < misread[t] + Skew
    BY DEF LocalAuthority
  <2>1. /\ now \in Nat /\ deadline[t] \in Nat /\ misread[t] \in Nat /\ Skew \in Nat
        /\ exec[SessionOf[t]].expires \in Nat
    BY TurnAssumption, LimitAssumption DEF LeaseInvariant, TypeOK, Row
  <2>2. CASE misread[t] # 0
    BY <2>1, <2>2 DEF LeaseInvariant, WatchInv, Armed
  <2>3. CASE misread[t] = 0 /\ OwnRow(t)
    BY <2>1, <2>3 DEF LeaseInvariant, WatchInv, Armed, Holds, OwnRow, Live
  <2>4. CASE misread[t] = 0 /\ ~OwnRow(t)
    BY <2>1, <2>4 DEF LeaseInvariant, WatchInv, Armed
  <2> QED
    BY <2>2, <2>3, <2>4
<1> QED
  BY LeaseCorrect, <1>1, PTL

\* No row is active for a user who may not execute in its session, at any moment.
THEOREM PermissionHolds == Spec => []NoUnpermittedHolder
BY LeaseCorrect, PTL DEF LeaseInvariant

\* The running-turn caps of the tenant hold over every replica.
THEOREM CapsAlwaysHold == Spec => []CapsHold
BY LeaseCorrect, PTL DEF LeaseInvariant

-----------------------------------------------------------------------------
(* The lease implements the bounded lock                                   *)

\* The abstract holder of a session, as ImplementsLock maps it.
HolderOf == [s \in Sessions |-> IF Live(s) THEN exec[s].id ELSE NoTurn]
UsedTurns == {t \in Turns : Admitted(t)}

\* The live sessions are those that the abstract lock counts.
LEMMA HeldIsLive ==
  ASSUME LeaseInvariant
  PROVE  /\ Lock!Held = LiveSessions
         /\ \A u : Lock!HeldBy(u) = LiveOf(u)
<1>1. \A s \in Sessions : HolderOf[s] # NoTurn <=> Live(s)
  BY TurnAssumption DEF LeaseInvariant, RowInv, HolderOf, Live
<1>2. Lock!Held = LiveSessions
  BY <1>1 DEF Lock!Held, LiveSessions, HolderOf
<1> QED
  BY <1>2 DEF Lock!HeldBy, LiveOf, LiveSessions, Live

\* The abstract specification counts with the same operator.
LEMMA SameCardinality == \A S : Lock!Cardinality(S) = Cardinality(S)
BY Zenon DEF Lock!Cardinality, Cardinality

\* Every step of the lease is a grant, a drop or a stutter of the abstract lock.
THEOREM LeaseImplementsLock == Spec => ImplementsLock
<1>1. Init => Lock!LockInit
  BY DEF Init, Lock!LockInit, Live, Active, NoRow, Admitted
<1>2. LeaseInvariant /\ [Next]_vars => [Lock!LockNext]_(Lock!lockVars)
  <2> SUFFICES ASSUME LeaseInvariant, [Next]_vars
               PROVE  Lock!LockNext \/ UNCHANGED Lock!lockVars
    OBVIOUS
  <2>1. ASSUME NEW t \in Turns, AcquireCommit(t) PROVE Lock!Grant(t)
    <3> DEFINE s == SessionOf[t]
    <3>1. /\ s \in Sessions /\ ~Live(s) /\ pc[t] = "checked"
          /\ now \in Nat /\ now + LeaseLen > now
      <4>1. LockedBy(t) /\ s \in Sessions
        BY <2>1, TurnAssumption DEF AcquireCommit
      <4>2. ~Live(s)
        BY <4>1 DEF LeaseInvariant, LockInv
      <4>3. now \in Nat /\ now + LeaseLen > now
        BY LimitAssumption DEF LeaseInvariant, TypeOK
      <4> QED
        BY <4>1, <4>2, <4>3 DEF LockedBy
    <3>2. t \notin UsedTurns /\ HolderOf[s] = NoTurn
      BY <3>1 DEF UsedTurns, Admitted, HolderOf
    <3>3. /\ Lock!Cardinality(Lock!Held) < PerTenant
          /\ Lock!Cardinality(Lock!HeldBy(UserOf[t])) < PerUser
      <4>1. Cardinality(LiveSessions) < PerTenant /\ Cardinality(LiveOf(UserOf[t])) < PerUser
        BY <2>1 DEF AcquireCommit, LeaseInvariant, RoomInv
      <4> QED
        BY <4>1, HeldIsLive, SameCardinality
    <3>4. HolderOf' = [HolderOf EXCEPT ![s] = t]
      <4>1. \A x \in Sessions : x # s => exec'[x] = exec[x]
        BY <2>1, <3>1 DEF AcquireCommit, LeaseInvariant, TypeOK
      <4>2. Live(s)' /\ exec'[s].id = t /\ now' = now
        BY <2>1, <3>1 DEF AcquireCommit, LeaseInvariant, TypeOK, Live, Active
      <4>3. \A x \in Sessions : x # s => HolderOf'[x] = HolderOf[x]
        BY <4>1, <4>2 DEF HolderOf, Live, Active
      <4>4. HolderOf'[s] = t
        BY <3>1, <4>2 DEF HolderOf
      <4> QED
        BY <3>1, <4>3, <4>4 DEF HolderOf
    <3>5. UsedTurns' = UsedTurns \cup {t}
      <4>1. pc \in [Turns -> TurnStates] /\ pc' = [pc EXCEPT ![t] = "running"]
        BY <2>1 DEF AcquireCommit, LeaseInvariant, TypeOK
      <4> QED
        BY <4>1 DEF UsedTurns, Admitted
    <3> QED
      BY <3>2, <3>3, <3>4, <3>5 DEF Lock!Grant, HolderOf, UsedTurns
  <2>2. ASSUME \A t \in Turns : ~AcquireCommit(t)
        PROVE  Lock!LockNext \/ UNCHANGED Lock!lockVars
    <3> DEFINE S == LiveSessions \ LiveSessions'
    <3>1. LiveSessions' \subseteq LiveSessions
      BY <2>2, LiveShrinks DEF LeaseInvariant
    <3>2. \A s \in Sessions : exec'[s].id = exec[s].id
      BY <2>2, IdStep DEF LeaseInvariant
    <3>3. HolderOf' = [s \in Sessions |-> IF s \in S THEN NoTurn ELSE HolderOf[s]]
      BY <3>1, <3>2 DEF HolderOf, LiveSessions
    <3>4. UsedTurns' = UsedTurns
      BY <2>2, AdmittedStep DEF LeaseInvariant, UsedTurns
    <3>5. S \in SUBSET Lock!Held
      BY HeldIsLive
    <3>6. \E D \in SUBSET Lock!Held : Lock!Drop(D)
      <4> HIDE DEF S
      <4> QED
        BY <3>3, <3>4, <3>5 DEF Lock!Drop, HolderOf, UsedTurns
    <3> QED
      BY <3>6, Zenon DEF Lock!LockNext
  <2> QED
    BY <2>1, <2>2 DEF Lock!LockNext
<1> QED
  BY <1>1, <1>2, LeaseCorrect, PTL DEF Spec, ImplementsLock, Lock!LockSpec
=============================================================================
