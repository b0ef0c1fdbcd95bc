------------------------- MODULE TurnRuntimeProofs -------------------------
(***************************************************************************)
(* Proofs about TurnRuntime, for any number of turns of a session.         *)
(***************************************************************************)
EXTENDS TurnRuntime, FiniteSetTheorems, TLAPS

-----------------------------------------------------------------------------
(* The inductive invariant                                                 *)

\* Where the handler creates a runtime, and where the turn has bound one.
Creating == {"checking", "clearing", "binding", "bound", "refreshing", "building", "upserting", "boundNew",
             "unwinding"}
Bound == {"upserting", "boundNew", "refreshing", "created", "entering", "entered", "running", "closing"}
\* A runtime that is built, but whose turn has lost its lease: its bind will fail.
Doomed(t) == t \in Turns /\ pc[t] = "upserting" /\ adm[t] # "held"

\* The slot has one owner, a creation is pending for the turn that creates, and
\* nobody creates beside a turn in the slot.
SlotInv ==
  /\ \A t, u \in Turns : InSlot(t) /\ InSlot(u) => t = u
  /\ active <=> \E t \in Turns : InSlot(t)
  /\ \A t \in Turns : pc[t] \in Creating => pending = t
  /\ CreationExcludesTurn

\* The runtime of a turn is the one of the session, unless it is torn down.
RuntimeInv ==
  /\ disposing \subseteq aborted
  /\ \A t \in Turns : pc[t] \in Bound \cup {"binding", "bound"} =>
       ref[t] # None /\ (session = ref[t] \/ ref[t] \in aborted)
  /\ \A t \in Turns : pc[t] \in {"upserting", "boundNew"} => ref[t] = t
  /\ \A t \in Turns : pc[t] \in {"clearing", "building"} => session = None \/ session \in aborted
  /\ \A t \in Turns :
       pc[t] \in {"idle", "marked", "gates", "checking", "clearing", "binding", "bound", "building"} =>
         session # t /\ \A u \in Turns : ref[u] # t
  /\ \A t \in Turns :
       pc[t] \in {"idle", "marked", "gates", "checking", "clearing", "binding", "bound"} =>
         \A r \in Runtimes : execOf[r] # t

\* An admission ends once, and a log is closed only after its turn.
AdmissionInv ==
  /\ \A t \in Turns : pc[t] = "idle" => adm[t] = "none"
  /\ \A t \in Turns : adm[t] = "none" => pc[t] = "idle"
  /\ \A t \in Turns : pc[t] = "marked" => adm[t] = "held"
  /\ \A t \in Turns : adm[t] = "ended" => entry # t
  /\ \A t \in closed : pc[t] # "idle"

\* Without evictions the entry is the turn whose admission is open, and the row is
\* current for it.
EntryInv ==
  /\ \A t \in Turns : adm[t] \in {"held", "releasing", "disposing"} => entry = t
  /\ \A t \in Turns : current = t => adm[t] = "held" \/ pc[t] \in {"ending", "done"}

\* The runtime of a bound turn names its execution until the turn loses its lease;
\* from then on the runtime is torn down.
FenceInv ==
  /\ \A t \in Turns : pc[t] = "bound" /\ adm[t] # "held" => t \in late
  /\ \A t, u \in Turns : t # u /\ pc[t] \in {"binding", "bound"} /\ pc[u] \in Bound => adm[u] # "held"
  /\ \A t \in Turns : pc[t] \in Bound /\ t \notin late =>
       \/ ref[t] \in aborted
       \/ execOf[ref[t]] = t /\ (adm[t] = "held" \/ pc[t] = "upserting")

\* A runtime that a change outdated is torn down, or the change is postponed and a
\* turn is there to apply it.
ChangeInv ==
  /\ \A r \in outdated :
       \/ r \in aborted
       \/ r = session /\ (Doomed(r) \/ (invalid /\ (entry # None \/ active)))
  /\ invalid /\ entry = None /\ ~active => session = None \/ session \in aborted \/ Doomed(session)
  /\ \A t \in Turns : adm[t] = "disposing" => session = None \/ session \in aborted \/ Doomed(session)
  /\ \A t \in Turns : \A r \in old[t] : r \in aborted \/ Doomed(r)

RuntimesInv ==
  /\ TypeOK /\ SlotInv /\ RuntimeInv /\ AdmissionInv /\ TimerIsSafe /\ LogIsLive
  /\ evicted = {} => EntryInv /\ FenceInv /\ ChangeInv /\ RunningTurnKept /\ WorkIsFenced /\ IntegrationApplied

-----------------------------------------------------------------------------
(* The steps, by what they are about                                       *)

Prepare(t) == CreateCall(t) \/ CreateError(t) \/ ClearPrevious(t) \/ KeepPrevious(t) \/ Cleared(t)
Bind(t) == BindWarm(t) \/ WarmBound(t) \/ Refreshed(t)
Renew(t) == Build(t) \/ BindNew(t) \/ BindNewFails(t) \/ NewBound(t)
Signal(t) == LeaseLost(t) \/ WatchdogFires(t) \/ DeliverStop(t)
Tear(r) == Disposed(r) \/ IdleTimerFires(r)

\* Every step is about one of these.
LEMMA StepCases ==
  ASSUME Step
  PROVE  \/ \E t \in Turns :
              \/ Admission(t) \/ Prepare(t) \/ Bind(t) \/ Renew(t) \/ Run(t) \/ Release(t) \/ Signal(t)
         \/ \E r \in Runtimes : Tear(r)
         \/ Environment
BY DEF Step, Creation, Prepare, Bind, Renew, Signal, Tear

\* The state keeps its shape.
LEMMA TypeKept ==
  ASSUME TypeOK, RuntimeInv, Step /\ UNCHANGED shared
  PROVE  TypeOK'
<1> USE NameAssumption DEF TypeOK, Runtimes, registryVars, leaseVars, adapterVars, turnVars, historyVars
<1>1. ASSUME NEW t \in Turns, Admission(t) PROVE TypeOK'
  BY <1>1 DEF Admission, Admit, Go, Acquire, Fail
<1>2. ASSUME NEW t \in Turns, Prepare(t) PROVE TypeOK'
  BY <1>2 DEF Prepare, CreateCall, Go, CreateError, CreateFails, ClearPrevious, AbortSession, Victims,
      KeepPrevious, Replaced, Cleared
<1>3. ASSUME NEW t \in Turns, Bind(t) PROVE TypeOK'
  BY <1>3 DEF Bind, BindWarm, Go, WarmBound, Refreshed
<1>4. ASSUME NEW t \in Turns, Renew(t) PROVE TypeOK'
  BY <1>4 DEF Renew, Build, Go, BindNew, BindNewFails, AbortSession, NewBound, Rearm
<1>5. ASSUME NEW t \in Turns, Run(t) PROVE TypeOK'
  <2>1. CASE Enter(t)
    BY <2>1 DEF Enter, Go
  <2>2. CASE EnterCheck(t)
    BY <2>2 DEF EnterCheck, StateCurrent, Go
  <2>3. CASE Start(t)
    BY <2>3 DEF Start, Go
  <2>4. CASE Work(t)
    BY <2>4 DEF Work, Running, TurnAborted, StateCurrent
  <2>5. CASE FinishRun(t)
    BY <2>5 DEF FinishRun, Running, Go
  <2>6. CASE FreeSlot(t)
    <3>1. UNCHANGED <<registryVars, leaseVars, session, execOf, pending, adm, ref, sig, stopping,
                      old, outdated, strayed, late, evicted>>
      BY <2>6 DEF FreeSlot
    <3>2. halted' \subseteq Turns
      BY <2>6 DEF FreeSlot
    <3>3. CASE invalid
      <4>1. broken' \subseteq Turns
        BY <2>6, <3>3 DEF FreeSlot, Victims
      <4>2. aborted' \cup disposing' \cup armed' \subseteq Runtimes
        BY <2>6, <3>3 DEF FreeSlot, AbortSession
      <4>3. pc' = [pc EXCEPT ![t] = "tearing"]
        BY <2>6, <3>3 DEF FreeSlot, Go
      <4> QED
        BY <3>1, <3>2, <4>1, <4>2, <4>3
    <3>4. CASE ~invalid
      <4>1. armed' \subseteq Runtimes
        <5>1. ref[t] \in Runtimes
          BY <2>6 DEF FreeSlot, RuntimeInv, Bound
        <5> QED
          BY <2>6, <3>4, <5>1 DEF FreeSlot, Rearm
      <4>2. UNCHANGED <<aborted, disposing, broken>> /\ pc' = [pc EXCEPT ![t] = "ending"]
        BY <2>6, <3>4 DEF FreeSlot, Go
      <4> QED
        BY <3>1, <3>2, <4>1, <4>2
    <3> QED
      BY <3>3, <3>4
  <2>7. CASE TornDown(t)
    BY <2>7 DEF TornDown, Go
  <2> QED
    BY <1>5, <2>1, <2>2, <2>3, <2>4, <2>5, <2>6, <2>7 DEF Run
<1>6. ASSUME NEW t \in Turns, Release(t) PROVE TypeOK'
  BY <1>6 DEF Release, ReleaseAdmission, Releasing, ReleaseLease, ClearSlot, AbortSession, Victims,
      AdmissionDisposed, CloseLog, Go
<1>7. ASSUME NEW t \in Turns, Signal(t) PROVE TypeOK'
  BY <1>7 DEF Signal, LeaseLost, AbortSession, Victims, WatchdogFires, Running, DeliverStop
<1>8. ASSUME NEW r \in Runtimes, Tear(r) PROVE TypeOK'
  BY <1>8 DEF Tear, Disposed, IdleTimerFires, AbortSession, Victims
<1>9. ASSUME Environment PROVE TypeOK'
  BY <1>9 DEF Environment, LoseLease, StopExecution, StopUnadmitted, InvalidateIdle, AbortSession, Victims,
      InvalidateUser, InvalidateIntegration, Evict
<1> QED
  BY <1>1, <1>2, <1>3, <1>4, <1>5, <1>6, <1>7, <1>8, <1>9, StepCases

\* Admissions end once.
LEMMA AdmissionKept ==
  ASSUME TypeOK, AdmissionInv, LogIsLive, Step /\ UNCHANGED shared
  PROVE  AdmissionInv'
<1> USE NameAssumption DEF TypeOK, AdmissionInv, LogIsLive, registryVars, leaseVars, adapterVars, turnVars,
    historyVars
<1>1. ASSUME NEW t \in Turns, Admission(t) PROVE AdmissionInv'
  BY <1>1 DEF Admission, Admit, Go, Acquire, Fail
<1>2. ASSUME NEW t \in Turns, Prepare(t) PROVE AdmissionInv'
  BY <1>2 DEF Prepare, CreateCall, Go, CreateError, CreateFails, ClearPrevious, AbortSession, Victims,
      KeepPrevious, Replaced, Cleared
<1>3. ASSUME NEW t \in Turns, Bind(t) PROVE AdmissionInv'
  BY <1>3 DEF Bind, BindWarm, Go, WarmBound, Refreshed
<1>4. ASSUME NEW t \in Turns, Renew(t) PROVE AdmissionInv'
  BY <1>4 DEF Renew, Build, Go, BindNew, BindNewFails, AbortSession, NewBound, Rearm
<1>5. ASSUME NEW t \in Turns, Run(t) PROVE AdmissionInv'
  BY <1>5 DEF Run, Enter, Go, EnterCheck, StateCurrent, Start, Work, Running, TurnAborted, FinishRun,
      FreeSlot, AbortSession, Victims, Rearm, TornDown
<1>6. ASSUME NEW t \in Turns, Release(t) PROVE AdmissionInv'
  BY <1>6 DEF Release, ReleaseAdmission, Releasing, ReleaseLease, ClearSlot, AbortSession, Victims,
      AdmissionDisposed, CloseLog, Go
<1>7. ASSUME NEW t \in Turns, Signal(t) PROVE AdmissionInv'
  BY <1>7 DEF Signal, LeaseLost, AbortSession, Victims, WatchdogFires, Running, DeliverStop
<1>8. ASSUME NEW r \in Runtimes, Tear(r) PROVE AdmissionInv'
  BY <1>8 DEF Tear, Disposed, IdleTimerFires, AbortSession, Victims
<1>9. ASSUME Environment PROVE AdmissionInv'
  <2>1. CASE LoseLease
    BY <2>1 DEF LoseLease
  <2>2. CASE StopExecution
    BY <2>2 DEF StopExecution
  <2>3. CASE StopUnadmitted
    BY <2>3 DEF StopUnadmitted
  <2>4. CASE InvalidateIdle
    BY <2>4 DEF InvalidateIdle, AbortSession, Victims
  <2>5. CASE InvalidateUser
    BY <2>5 DEF InvalidateUser, AbortSession
  <2>6. CASE InvalidateIntegration
    BY <2>6 DEF InvalidateIntegration, AbortSession, Victims
  <2>7. CASE Evict
    BY <2>7 DEF Evict
  <2> QED
    BY <1>9, <2>1, <2>2, <2>3, <2>4, <2>5, <2>6, <2>7 DEF Environment
<1> QED
  BY <1>1, <1>2, <1>3, <1>4, <1>5, <1>6, <1>7, <1>8, <1>9, StepCases

\* The slot has one owner.
LEMMA SlotKept ==
  ASSUME TypeOK, SlotInv, Step /\ UNCHANGED shared
  PROVE  SlotInv'
<1> USE NameAssumption DEF TypeOK, SlotInv, Creating, CreationExcludesTurn, InSlot, registryVars, leaseVars,
    adapterVars, turnVars, historyVars
<1>1. ASSUME NEW t \in Turns, Admission(t) PROVE SlotInv'
  BY <1>1 DEF Admission, Admit, Go, Acquire, Fail
<1>2. ASSUME NEW t \in Turns, Prepare(t) PROVE SlotInv'
  BY <1>2 DEF Prepare, CreateCall, Go, CreateError, CreateFails, ClearPrevious, AbortSession, Victims,
      KeepPrevious, Replaced, Cleared
<1>3. ASSUME NEW t \in Turns, Bind(t) PROVE SlotInv'
  BY <1>3 DEF Bind, BindWarm, Go, WarmBound, Refreshed
<1>4. ASSUME NEW t \in Turns, Renew(t) PROVE SlotInv'
  BY <1>4 DEF Renew, Build, Go, BindNew, BindNewFails, AbortSession, NewBound, Rearm
<1>5. ASSUME NEW t \in Turns, Run(t) PROVE SlotInv'
  BY <1>5 DEF Run, Enter, Go, EnterCheck, StateCurrent, Start, Work, Running, TurnAborted, FinishRun,
      FreeSlot, AbortSession, Victims, Rearm, TornDown
<1>6. ASSUME NEW t \in Turns, Release(t) PROVE SlotInv'
  BY <1>6 DEF Release, ReleaseAdmission, Releasing, ReleaseLease, ClearSlot, AbortSession, Victims,
      AdmissionDisposed, CloseLog, Go
<1>7. ASSUME NEW t \in Turns, Signal(t) PROVE SlotInv'
  BY <1>7 DEF Signal, LeaseLost, AbortSession, Victims, WatchdogFires, Running, DeliverStop
<1>8. ASSUME NEW r \in Runtimes, Tear(r) PROVE SlotInv'
  BY <1>8 DEF Tear, Disposed, IdleTimerFires, AbortSession, Victims
<1>9. ASSUME Environment PROVE SlotInv'
  BY <1>9 DEF Environment, LoseLease, StopExecution, StopUnadmitted, InvalidateIdle, AbortSession, Victims,
      InvalidateUser, InvalidateIntegration, Evict
<1> QED
  BY <1>1, <1>2, <1>3, <1>4, <1>5, <1>6, <1>7, <1>8, <1>9, StepCases

\* A turn uses the runtime of the session.
LEMMA RuntimeKept ==
  ASSUME TypeOK, SlotInv, RuntimeInv, Step /\ UNCHANGED shared
  PROVE  RuntimeInv'
<1> USE NameAssumption DEF TypeOK, SlotInv, RuntimeInv, Creating, Bound, Runtimes, CreationExcludesTurn,
    InSlot, registryVars, leaseVars, adapterVars, turnVars, historyVars
<1>1. ASSUME NEW t \in Turns, Admission(t) PROVE RuntimeInv'
  BY <1>1 DEF Admission, Admit, Go, Acquire, Fail
<1>2. ASSUME NEW t \in Turns, Prepare(t) PROVE RuntimeInv'
  BY <1>2 DEF Prepare, CreateCall, Go, CreateError, CreateFails, ClearPrevious, AbortSession, Victims,
      KeepPrevious, Replaced, Cleared
<1>3. ASSUME NEW t \in Turns, Bind(t) PROVE RuntimeInv'
  <2>1. CASE BindWarm(t)
    BY <2>1 DEF BindWarm, Go
  <2>2. CASE WarmBound(t)
    BY <2>2 DEF WarmBound, Go
  <2>3. CASE Refreshed(t)
    BY <2>3 DEF Refreshed, Go
  <2> QED
    BY <1>3, <2>1, <2>2, <2>3 DEF Bind
<1>4. ASSUME NEW t \in Turns, Renew(t) PROVE RuntimeInv'
  BY <1>4 DEF Renew, Build, Go, BindNew, BindNewFails, AbortSession, NewBound, Rearm
<1>5. ASSUME NEW t \in Turns, Run(t) PROVE RuntimeInv'
  BY <1>5 DEF Run, Enter, Go, EnterCheck, StateCurrent, Start, Work, Running, TurnAborted, FinishRun,
      FreeSlot, AbortSession, Victims, Rearm, TornDown
<1>6. ASSUME NEW t \in Turns, Release(t) PROVE RuntimeInv'
  BY <1>6 DEF Release, ReleaseAdmission, Releasing, ReleaseLease, ClearSlot, AbortSession, Victims,
      AdmissionDisposed, CloseLog, Go
<1>7. ASSUME NEW t \in Turns, Signal(t) PROVE RuntimeInv'
  BY <1>7 DEF Signal, LeaseLost, AbortSession, Victims, WatchdogFires, Running, DeliverStop
<1>8. ASSUME NEW r \in Runtimes, Tear(r) PROVE RuntimeInv'
  BY <1>8 DEF Tear, Disposed, IdleTimerFires, AbortSession, Victims
<1>9. ASSUME Environment PROVE RuntimeInv'
  BY <1>9 DEF Environment, LoseLease, StopExecution, StopUnadmitted, InvalidateIdle, AbortSession, Victims,
      InvalidateUser, InvalidateIntegration, Evict
<1> QED
  BY <1>1, <1>2, <1>3, <1>4, <1>5, <1>6, <1>7, <1>8, <1>9, StepCases

\* Idle timers are safe.
LEMMA TimerKept ==
  ASSUME TypeOK, SlotInv, RuntimeInv, TimerIsSafe, Step /\ UNCHANGED shared
  PROVE  TimerIsSafe'
<1> USE NameAssumption DEF TypeOK, SlotInv, RuntimeInv, TimerIsSafe, Creating, Bound, Runtimes,
    CreationExcludesTurn, InSlot, registryVars, leaseVars, adapterVars, turnVars, historyVars
<1>1. ASSUME NEW t \in Turns, Admission(t) PROVE TimerIsSafe'
  BY <1>1 DEF Admission, Admit, Go, Acquire, Fail
<1>2. ASSUME NEW t \in Turns, Prepare(t) PROVE TimerIsSafe'
  BY <1>2 DEF Prepare, CreateCall, Go, CreateError, CreateFails, ClearPrevious, AbortSession, Victims,
      KeepPrevious, Replaced, Cleared
<1>3. ASSUME NEW t \in Turns, Bind(t) PROVE TimerIsSafe'
  BY <1>3 DEF Bind, BindWarm, Go, WarmBound, Refreshed
<1>4. ASSUME NEW t \in Turns, Renew(t) PROVE TimerIsSafe'
  BY <1>4 DEF Renew, Build, Go, BindNew, BindNewFails, AbortSession, NewBound, Rearm
<1>5. ASSUME NEW t \in Turns, Run(t) PROVE TimerIsSafe'
  BY <1>5 DEF Run, Enter, Go, EnterCheck, StateCurrent, Start, Work, Running, TurnAborted, FinishRun,
      FreeSlot, AbortSession, Victims, Rearm, TornDown
<1>6. ASSUME NEW t \in Turns, Release(t) PROVE TimerIsSafe'
  BY <1>6 DEF Release, ReleaseAdmission, Releasing, ReleaseLease, ClearSlot, AbortSession, Victims,
      AdmissionDisposed, CloseLog, Go
<1>7. ASSUME NEW t \in Turns, Signal(t) PROVE TimerIsSafe'
  BY <1>7 DEF Signal, LeaseLost, AbortSession, Victims, WatchdogFires, Running, DeliverStop
<1>8. ASSUME NEW r \in Runtimes, Tear(r) PROVE TimerIsSafe'
  BY <1>8 DEF Tear, Disposed, IdleTimerFires, AbortSession, Victims
<1>9. ASSUME Environment PROVE TimerIsSafe'
  BY <1>9 DEF Environment, LoseLease, StopExecution, StopUnadmitted, InvalidateIdle, AbortSession, Victims,
      InvalidateUser, InvalidateIntegration, Evict
<1> QED
  BY <1>1, <1>2, <1>3, <1>4, <1>5, <1>6, <1>7, <1>8, <1>9, StepCases

\* The log of the entry is live.
LEMMA LogKept ==
  ASSUME TypeOK, AdmissionInv, LogIsLive, Step /\ UNCHANGED shared
  PROVE  LogIsLive'
<1> USE NameAssumption DEF TypeOK, AdmissionInv, LogIsLive, registryVars, leaseVars, adapterVars, turnVars,
    historyVars
<1>1. ASSUME NEW t \in Turns, Admission(t) PROVE LogIsLive'
  BY <1>1 DEF Admission, Admit, Go, Acquire, Fail
<1>2. ASSUME NEW t \in Turns, Prepare(t) PROVE LogIsLive'
  BY <1>2 DEF Prepare, CreateCall, Go, CreateError, CreateFails, ClearPrevious, AbortSession, Victims,
      KeepPrevious, Replaced, Cleared
<1>3. ASSUME NEW t \in Turns, Bind(t) PROVE LogIsLive'
  BY <1>3 DEF Bind, BindWarm, Go, WarmBound, Refreshed
<1>4. ASSUME NEW t \in Turns, Renew(t) PROVE LogIsLive'
  BY <1>4 DEF Renew, Build, Go, BindNew, BindNewFails, AbortSession, NewBound, Rearm
<1>5. ASSUME NEW t \in Turns, Run(t) PROVE LogIsLive'
  BY <1>5 DEF Run, Enter, Go, EnterCheck, StateCurrent, Start, Work, Running, TurnAborted, FinishRun,
      FreeSlot, AbortSession, Victims, Rearm, TornDown
<1>6. ASSUME NEW t \in Turns, Release(t) PROVE LogIsLive'
  BY <1>6 DEF Release, ReleaseAdmission, Releasing, ReleaseLease, ClearSlot, AbortSession, Victims,
      AdmissionDisposed, CloseLog, Go
<1>7. ASSUME NEW t \in Turns, Signal(t) PROVE LogIsLive'
  BY <1>7 DEF Signal, LeaseLost, AbortSession, Victims, WatchdogFires, Running, DeliverStop
<1>8. ASSUME NEW r \in Runtimes, Tear(r) PROVE LogIsLive'
  BY <1>8 DEF Tear, Disposed, IdleTimerFires, AbortSession, Victims
<1>9. ASSUME Environment PROVE LogIsLive'
  BY <1>9 DEF Environment, LoseLease, StopExecution, StopUnadmitted, InvalidateIdle, AbortSession, Victims,
      InvalidateUser, InvalidateIntegration, Evict
<1> QED
  BY <1>1, <1>2, <1>3, <1>4, <1>5, <1>6, <1>7, <1>8, <1>9, StepCases

\* Without evictions, admissions exclude one another.
LEMMA EntryKept ==
  ASSUME TypeOK, AdmissionInv, evicted' = {}, EntryInv, Step /\ UNCHANGED shared
  PROVE  EntryInv'
<1> USE NameAssumption DEF TypeOK, AdmissionInv, EntryInv, registryVars, leaseVars, adapterVars, turnVars,
    historyVars
<1>1. ASSUME NEW t \in Turns, Admission(t) PROVE EntryInv'
  BY <1>1 DEF Admission, Admit, Go, Acquire, Fail
<1>2. ASSUME NEW t \in Turns, Prepare(t) PROVE EntryInv'
  BY <1>2 DEF Prepare, CreateCall, Go, CreateError, CreateFails, ClearPrevious, AbortSession, Victims,
      KeepPrevious, Replaced, Cleared
<1>3. ASSUME NEW t \in Turns, Bind(t) PROVE EntryInv'
  BY <1>3 DEF Bind, BindWarm, Go, WarmBound, Refreshed
<1>4. ASSUME NEW t \in Turns, Renew(t) PROVE EntryInv'
  BY <1>4 DEF Renew, Build, Go, BindNew, BindNewFails, AbortSession, NewBound, Rearm
<1>5. ASSUME NEW t \in Turns, Run(t) PROVE EntryInv'
  BY <1>5 DEF Run, Enter, Go, EnterCheck, StateCurrent, Start, Work, Running, TurnAborted, FinishRun,
      FreeSlot, AbortSession, Victims, Rearm, TornDown
<1>6. ASSUME NEW t \in Turns, Release(t) PROVE EntryInv'
  BY <1>6 DEF Release, ReleaseAdmission, Releasing, ReleaseLease, ClearSlot, AbortSession, Victims,
      AdmissionDisposed, CloseLog, Go
<1>7. ASSUME NEW t \in Turns, Signal(t) PROVE EntryInv'
  BY <1>7 DEF Signal, LeaseLost, AbortSession, Victims, WatchdogFires, Running, DeliverStop
<1>8. ASSUME NEW r \in Runtimes, Tear(r) PROVE EntryInv'
  BY <1>8 DEF Tear, Disposed, IdleTimerFires, AbortSession, Victims
<1>9. ASSUME Environment PROVE EntryInv'
  BY <1>9 DEF Environment, LoseLease, StopExecution, StopUnadmitted, InvalidateIdle, AbortSession, Victims,
      InvalidateUser, InvalidateIntegration, Evict
<1> QED
  BY <1>1, <1>2, <1>3, <1>4, <1>5, <1>6, <1>7, <1>8, <1>9, StepCases

\* A bound runtime names its turn.
LEMMA FenceKept ==
  ASSUME TypeOK, SlotInv, RuntimeInv, AdmissionInv, EntryInv, FenceInv, Step /\ UNCHANGED shared
  PROVE  FenceInv'
<1> USE NameAssumption DEF TypeOK, SlotInv, RuntimeInv, AdmissionInv, EntryInv, FenceInv, Creating, Bound,
    Runtimes, registryVars, leaseVars, adapterVars, turnVars, historyVars
<1>1. ASSUME NEW t \in Turns, Admission(t) PROVE FenceInv'
  BY <1>1 DEF Admission, Admit, Go, Acquire, Fail
<1>2. ASSUME NEW t \in Turns, Prepare(t) PROVE FenceInv'
  BY <1>2 DEF Prepare, CreateCall, Go, CreateError, CreateFails, ClearPrevious, AbortSession, Victims,
      KeepPrevious, Replaced, Cleared
<1>3. ASSUME NEW t \in Turns, Bind(t) PROVE FenceInv'
  BY <1>3 DEF Bind, BindWarm, Go, WarmBound, Refreshed
<1>4. ASSUME NEW t \in Turns, Renew(t) PROVE FenceInv'
  BY <1>4 DEF Renew, Build, Go, BindNew, BindNewFails, AbortSession, NewBound, Rearm
<1>5. ASSUME NEW t \in Turns, Run(t) PROVE FenceInv'
  BY <1>5 DEF Run, Enter, Go, EnterCheck, StateCurrent, Start, Work, Running, TurnAborted, FinishRun,
      FreeSlot, AbortSession, Victims, Rearm, TornDown
<1>6. ASSUME NEW t \in Turns, Release(t) PROVE FenceInv'
  BY <1>6 DEF Release, ReleaseAdmission, Releasing, ReleaseLease, ClearSlot, AbortSession, Victims,
      AdmissionDisposed, CloseLog, Go
<1>7. ASSUME NEW t \in Turns, Signal(t) PROVE FenceInv'
  <2>1. CASE LeaseLost(t)
    <3>1. UNCHANGED <<session, execOf, pc, ref>> /\ aborted \subseteq aborted' /\ late \subseteq late'
      BY <2>1 DEF LeaseLost, AbortSession
    <3>2. adm' = [adm EXCEPT ![t] = "releasing"] /\ adm[t] = "held"
      BY <2>1 DEF LeaseLost
    <3>3. pc[t] = "bound" => t \in late'
      <4>1. pc[t] = "bound" => ~(session # None /\ execOf[session] = t)
        OBVIOUS
      <4> QED
        BY <2>1, <4>1 DEF LeaseLost
    <3>4. \A u \in Turns : pc[u] = "bound" /\ adm'[u] # "held" => u \in late'
      BY <3>1, <3>2, <3>3
    <3>5. \A u, v \in Turns : u # v /\ pc[u] \in {"binding", "bound"} /\ pc[v] \in Bound => adm'[v] # "held"
      BY <3>2
    <3>6. pc[t] \in Bound /\ t \notin late' => ref[t] \in aborted'
      <4>1. pc[t] \in Bound /\ t \notin late /\ ref[t] \notin aborted => session # None /\ execOf[session] = t
        BY <3>2
      <4>2. session # None /\ execOf[session] = t => session \in aborted'
        BY <2>1 DEF LeaseLost, AbortSession
      <4> QED
        BY <3>1, <4>1, <4>2
    <3>7. \A u \in Turns : u # t => adm'[u] = adm[u]
      BY <3>2
    <3> QED
      BY <3>1, <3>4, <3>5, <3>6, <3>7
  <2>2. CASE WatchdogFires(t)
    BY <2>2 DEF WatchdogFires, Running
  <2>3. CASE DeliverStop(t)
    BY <2>3 DEF DeliverStop, Running
  <2> QED
    BY <1>7, <2>1, <2>2, <2>3 DEF Signal
<1>8. ASSUME NEW r \in Runtimes, Tear(r) PROVE FenceInv'
  BY <1>8 DEF Tear, Disposed, IdleTimerFires, AbortSession, Victims
<1>9. ASSUME Environment PROVE FenceInv'
  BY <1>9 DEF Environment, LoseLease, StopExecution, StopUnadmitted, InvalidateIdle, AbortSession, Victims,
      InvalidateUser, InvalidateIntegration, Evict
<1> QED
  BY <1>1, <1>2, <1>3, <1>4, <1>5, <1>6, <1>7, <1>8, <1>9, StepCases

\* Changes of integrations are applied.
LEMMA ChangeKept ==
  ASSUME TypeOK, SlotInv, RuntimeInv, AdmissionInv, EntryInv, FenceInv, evicted' = {}, ChangeInv, Step /\ UNCHANGED shared
  PROVE  ChangeInv'
<1> USE NameAssumption DEF TypeOK, SlotInv, RuntimeInv, AdmissionInv, EntryInv, FenceInv, ChangeInv,
    Creating, Bound, Doomed, Runtimes, CreationExcludesTurn, InSlot, registryVars, leaseVars, adapterVars,
    turnVars, historyVars
<1>1. ASSUME NEW t \in Turns, Admission(t) PROVE ChangeInv'
  BY <1>1 DEF Admission, Admit, Go, Acquire, Fail
<1>2. ASSUME NEW t \in Turns, Prepare(t) PROVE ChangeInv'
  BY <1>2 DEF Prepare, CreateCall, Go, CreateError, CreateFails, ClearPrevious, AbortSession, Victims,
      KeepPrevious, Replaced, Cleared
<1>3. ASSUME NEW t \in Turns, Bind(t) PROVE ChangeInv'
  BY <1>3 DEF Bind, BindWarm, Go, WarmBound, Refreshed
<1>4. ASSUME NEW t \in Turns, Renew(t) PROVE ChangeInv'
  BY <1>4 DEF Renew, Build, Go, BindNew, BindNewFails, AbortSession, NewBound, Rearm
<1>5. ASSUME NEW t \in Turns, Run(t) PROVE ChangeInv'
  BY <1>5 DEF Run, Enter, Go, EnterCheck, StateCurrent, Start, Work, Running, TurnAborted, FinishRun,
      FreeSlot, AbortSession, Victims, Rearm, TornDown
<1>6. ASSUME NEW t \in Turns, Release(t) PROVE ChangeInv'
  <2>1. CASE ReleaseAdmission(t)
    <3>1. UNCHANGED <<session, pc, old, outdated>> /\ aborted \subseteq aborted' /\ active' = active
      BY <2>1 DEF ReleaseAdmission, AbortSession
    <3>2. adm' \in {[adm EXCEPT ![t] = "disposing"], [adm EXCEPT ![t] = "ended"]} /\ Releasing(t)
      BY <2>1 DEF ReleaseAdmission, ClearSlot
    <3>3. \A r : Doomed(r) => Doomed(r)'
      BY <3>1, <3>2
    <3>4. CASE session # None /\ ~active /\ invalid
      <4>1. entry' = entry /\ session \in aborted' /\ adm' = [adm EXCEPT ![t] = "disposing"] /\ ~invalid'
        BY <2>1, <3>4 DEF ReleaseAdmission, AbortSession
      <4> QED
        BY <3>1, <3>3, <4>1
    <3>5. CASE ~(session # None /\ ~active /\ invalid)
      <4>1. /\ entry' = None /\ aborted' = aborted /\ adm' = [adm EXCEPT ![t] = "ended"]
            /\ invalid' <=> (invalid /\ session # None)
        BY <2>1, <3>5 DEF ReleaseAdmission, ClearSlot
      <4>2. \A u \in Turns : adm'[u] = "disposing" => adm[u] = "disposing"
        BY <4>1
      <4>3. ASSUME NEW r \in outdated PROVE r \in aborted' \/ (r = session /\ (Doomed(r)' \/ (invalid' /\ active')))
        BY <3>1, <3>3, <3>5, <4>1
      <4> QED
        BY <3>1, <3>3, <3>5, <4>1, <4>2, <4>3
    <3> QED
      BY <3>4, <3>5
  <2>2. CASE AdmissionDisposed(t)
    BY <2>2 DEF AdmissionDisposed, ClearSlot
  <2>3. CASE CloseLog(t)
    BY <2>3 DEF CloseLog, Go
  <2> QED
    BY <1>6, <2>1, <2>2, <2>3 DEF Release
<1>7. ASSUME NEW t \in Turns, Signal(t) PROVE ChangeInv'
  BY <1>7 DEF Signal, LeaseLost, AbortSession, Victims, WatchdogFires, Running, DeliverStop
<1>8. ASSUME NEW r \in Runtimes, Tear(r) PROVE ChangeInv'
  BY <1>8 DEF Tear, Disposed, IdleTimerFires, AbortSession, Victims
<1>9. ASSUME Environment PROVE ChangeInv'
  <2>1. CASE LoseLease
    BY <2>1 DEF LoseLease
  <2>2. CASE StopExecution
    BY <2>2 DEF StopExecution
  <2>3. CASE StopUnadmitted
    BY <2>3 DEF StopUnadmitted
  <2>4. CASE InvalidateIdle
    BY <2>4 DEF InvalidateIdle, AbortSession, Victims
  <2>5. CASE InvalidateUser
    BY <2>5 DEF InvalidateUser, AbortSession
  <2>6. CASE InvalidateIntegration
    BY <2>6 DEF InvalidateIntegration, AbortSession, Victims
  <2>7. CASE Evict
    BY <2>7 DEF Evict
  <2> QED
    BY <1>9, <2>1, <2>2, <2>3, <2>4, <2>5, <2>6, <2>7 DEF Environment
<1> QED
  BY <1>1, <1>2, <1>3, <1>4, <1>5, <1>6, <1>7, <1>8, <1>9, StepCases

\* Nobody else ends a running turn.
LEMMA TurnKept ==
  ASSUME TypeOK, SlotInv, TimerIsSafe, FenceInv, evicted' = {}, RunningTurnKept, Step /\ UNCHANGED shared
  PROVE  RunningTurnKept'
<1> USE NameAssumption DEF TypeOK, SlotInv, TimerIsSafe, FenceInv, Bound, RunningTurnKept, InSlot, Running,
    TurnAborted, registryVars, leaseVars, adapterVars, turnVars, historyVars
<1>1. ASSUME NEW t \in Turns, Admission(t) PROVE RunningTurnKept'
  BY <1>1 DEF Admission, Admit, Go, Acquire, Fail
<1>2. ASSUME NEW t \in Turns, Prepare(t) PROVE RunningTurnKept'
  BY <1>2 DEF Prepare, CreateCall, Go, CreateError, CreateFails, ClearPrevious, AbortSession, Victims,
      KeepPrevious, Replaced, Cleared
<1>3. ASSUME NEW t \in Turns, Bind(t) PROVE RunningTurnKept'
  BY <1>3 DEF Bind, BindWarm, Go, WarmBound, Refreshed
<1>4. ASSUME NEW t \in Turns, Renew(t) PROVE RunningTurnKept'
  BY <1>4 DEF Renew, Build, Go, BindNew, BindNewFails, AbortSession, NewBound, Rearm
<1>5. ASSUME NEW t \in Turns, Run(t) PROVE RunningTurnKept'
  BY <1>5 DEF Run, Enter, Go, EnterCheck, StateCurrent, Start, Work, Running, TurnAborted, FinishRun,
      FreeSlot, AbortSession, Victims, Rearm, TornDown
<1>6. ASSUME NEW t \in Turns, Release(t) PROVE RunningTurnKept'
  BY <1>6 DEF Release, ReleaseAdmission, Releasing, ReleaseLease, ClearSlot, AbortSession, Victims,
      AdmissionDisposed, CloseLog, Go
<1>7. ASSUME NEW t \in Turns, Signal(t) PROVE RunningTurnKept'
  BY <1>7 DEF Signal, LeaseLost, AbortSession, Victims, WatchdogFires, Running, DeliverStop
<1>8. ASSUME NEW r \in Runtimes, Tear(r) PROVE RunningTurnKept'
  BY <1>8 DEF Tear, Disposed, IdleTimerFires, AbortSession, Victims
<1>9. ASSUME Environment PROVE RunningTurnKept'
  BY <1>9 DEF Environment, LoseLease, StopExecution, StopUnadmitted, InvalidateIdle, AbortSession, Victims,
      InvalidateUser, InvalidateIntegration, Evict
<1> QED
  BY <1>1, <1>2, <1>3, <1>4, <1>5, <1>6, <1>7, <1>8, <1>9, StepCases

\* A turn works as its own execution.
LEMMA FencedKept ==
  ASSUME TypeOK, FenceInv, evicted' = {}, WorkIsFenced, Step /\ UNCHANGED shared
  PROVE  WorkIsFenced'
<1> USE NameAssumption DEF TypeOK, FenceInv, Bound, WorkIsFenced, StateCurrent, registryVars, leaseVars,
    adapterVars, turnVars, historyVars
<1>1. ASSUME NEW t \in Turns, Admission(t) PROVE WorkIsFenced'
  BY <1>1 DEF Admission, Admit, Go, Acquire, Fail
<1>2. ASSUME NEW t \in Turns, Prepare(t) PROVE WorkIsFenced'
  BY <1>2 DEF Prepare, CreateCall, Go, CreateError, CreateFails, ClearPrevious, AbortSession, Victims,
      KeepPrevious, Replaced, Cleared
<1>3. ASSUME NEW t \in Turns, Bind(t) PROVE WorkIsFenced'
  BY <1>3 DEF Bind, BindWarm, Go, WarmBound, Refreshed
<1>4. ASSUME NEW t \in Turns, Renew(t) PROVE WorkIsFenced'
  BY <1>4 DEF Renew, Build, Go, BindNew, BindNewFails, AbortSession, NewBound, Rearm
<1>5. ASSUME NEW t \in Turns, Run(t) PROVE WorkIsFenced'
  BY <1>5 DEF Run, Enter, Go, EnterCheck, StateCurrent, Start, Work, Running, TurnAborted, FinishRun,
      FreeSlot, AbortSession, Victims, Rearm, TornDown
<1>6. ASSUME NEW t \in Turns, Release(t) PROVE WorkIsFenced'
  BY <1>6 DEF Release, ReleaseAdmission, Releasing, ReleaseLease, ClearSlot, AbortSession, Victims,
      AdmissionDisposed, CloseLog, Go
<1>7. ASSUME NEW t \in Turns, Signal(t) PROVE WorkIsFenced'
  BY <1>7 DEF Signal, LeaseLost, AbortSession, Victims, WatchdogFires, Running, DeliverStop
<1>8. ASSUME NEW r \in Runtimes, Tear(r) PROVE WorkIsFenced'
  BY <1>8 DEF Tear, Disposed, IdleTimerFires, AbortSession, Victims
<1>9. ASSUME Environment PROVE WorkIsFenced'
  BY <1>9 DEF Environment, LoseLease, StopExecution, StopUnadmitted, InvalidateIdle, AbortSession, Victims,
      InvalidateUser, InvalidateIntegration, Evict
<1> QED
  BY <1>1, <1>2, <1>3, <1>4, <1>5, <1>6, <1>7, <1>8, <1>9, StepCases

\* A turn does not start on an outdated runtime.
LEMMA AppliedKept ==
  ASSUME TypeOK, SlotInv, ChangeInv, evicted' = {}, IntegrationApplied, Step /\ UNCHANGED shared
  PROVE  IntegrationApplied'
<1> USE NameAssumption DEF TypeOK, SlotInv, ChangeInv, Doomed, Creating, IntegrationApplied, Running,
    registryVars, leaseVars, adapterVars, turnVars, historyVars
<1>1. ASSUME NEW t \in Turns, Admission(t) PROVE IntegrationApplied'
  BY <1>1 DEF Admission, Admit, Go, Acquire, Fail
<1>2. ASSUME NEW t \in Turns, Prepare(t) PROVE IntegrationApplied'
  BY <1>2 DEF Prepare, CreateCall, Go, CreateError, CreateFails, ClearPrevious, AbortSession, Victims,
      KeepPrevious, Replaced, Cleared
<1>3. ASSUME NEW t \in Turns, Bind(t) PROVE IntegrationApplied'
  BY <1>3 DEF Bind, BindWarm, Go, WarmBound, Refreshed
<1>4. ASSUME NEW t \in Turns, Renew(t) PROVE IntegrationApplied'
  BY <1>4 DEF Renew, Build, Go, BindNew, BindNewFails, AbortSession, NewBound, Rearm
<1>5. ASSUME NEW t \in Turns, Run(t) PROVE IntegrationApplied'
  BY <1>5 DEF Run, Enter, Go, EnterCheck, StateCurrent, Start, Work, Running, TurnAborted, FinishRun,
      FreeSlot, AbortSession, Victims, Rearm, TornDown
<1>6. ASSUME NEW t \in Turns, Release(t) PROVE IntegrationApplied'
  BY <1>6 DEF Release, ReleaseAdmission, Releasing, ReleaseLease, ClearSlot, AbortSession, Victims,
      AdmissionDisposed, CloseLog, Go
<1>7. ASSUME NEW t \in Turns, Signal(t) PROVE IntegrationApplied'
  BY <1>7 DEF Signal, LeaseLost, AbortSession, Victims, WatchdogFires, Running, DeliverStop
<1>8. ASSUME NEW r \in Runtimes, Tear(r) PROVE IntegrationApplied'
  BY <1>8 DEF Tear, Disposed, IdleTimerFires, AbortSession, Victims
<1>9. ASSUME Environment PROVE IntegrationApplied'
  BY <1>9 DEF Environment, LoseLease, StopExecution, StopUnadmitted, InvalidateIdle, AbortSession, Victims,
      InvalidateUser, InvalidateIntegration, Evict
<1> QED
  BY <1>1, <1>2, <1>3, <1>4, <1>5, <1>6, <1>7, <1>8, <1>9, StepCases

-----------------------------------------------------------------------------
(* The theorems                                                            *)

\* The first state satisfies the invariant.
LEMMA RuntimesStart ==
  ASSUME Init
  PROVE  RuntimesInv
<1> USE NameAssumption DEF Init
<1>1. TypeOK
  BY DEF TypeOK, Runtimes
<1>2. SlotInv /\ TimerIsSafe
  BY DEF SlotInv, TimerIsSafe, InSlot, Creating, CreationExcludesTurn
<1>3. RuntimeInv
  BY DEF RuntimeInv, Bound, Runtimes
<1>4. AdmissionInv /\ LogIsLive /\ EntryInv
  BY DEF AdmissionInv, LogIsLive, EntryInv
<1>5. FenceInv /\ ChangeInv
  BY DEF FenceInv, ChangeInv, Bound
<1>6. RunningTurnKept /\ WorkIsFenced /\ IntegrationApplied
  BY DEF RunningTurnKept, WorkIsFenced, IntegrationApplied, Running
<1> QED
  BY <1>1, <1>2, <1>3, <1>4, <1>5, <1>6 DEF RuntimesInv

\* An eviction is never forgotten.
LEMMA EvictionsStay ==
  ASSUME Step, evicted' = {}
  PROVE  evicted = {}
<1>1. evicted \subseteq evicted'
  <2> USE DEF historyVars
  <2>1. ASSUME NEW t \in Turns, Admission(t) \/ Creation(t) PROVE evicted \subseteq evicted'
    BY <2>1 DEF Admission, Admit, Acquire, Fail, Creation, CreateCall, CreateError, CreateFails, ClearPrevious,
                KeepPrevious, Cleared, BindWarm, WarmBound, Refreshed, Build, BindNew, BindNewFails, NewBound
  <2>2. ASSUME NEW t \in Turns, Run(t) \/ Release(t) \/ Signal(t) PROVE evicted \subseteq evicted'
    BY <2>2 DEF Run, Enter, EnterCheck, Start, Work, FinishRun, FreeSlot, TornDown, Release, ReleaseAdmission,
                AdmissionDisposed, CloseLog, Signal, LeaseLost, WatchdogFires, DeliverStop
  <2>3. ASSUME NEW r \in Runtimes, Tear(r) PROVE evicted \subseteq evicted'
    BY <2>3 DEF Tear, Disposed, IdleTimerFires
  <2>4. ASSUME Environment PROVE evicted \subseteq evicted'
    BY <2>4 DEF Environment, LoseLease, StopExecution, StopUnadmitted, InvalidateIdle, InvalidateUser,
                InvalidateIntegration, Evict
  <2> QED
    BY <2>1, <2>2, <2>3, <2>4 DEF Step, Signal, Tear
<1> QED
  BY <1>1

\* Every step keeps it.
LEMMA RuntimesStep ==
  ASSUME RuntimesInv, [Next]_vars
  PROVE  RuntimesInv'
<1>1. CASE Step /\ UNCHANGED shared
  <2> USE <1>1
  <2>1. TypeOK' /\ SlotInv' /\ RuntimeInv' /\ AdmissionInv' /\ TimerIsSafe' /\ LogIsLive'
    BY TypeKept, SlotKept, RuntimeKept, AdmissionKept, TimerKept, LogKept DEF RuntimesInv
  <2>2. ASSUME evicted' = {}
        PROVE  EntryInv' /\ FenceInv' /\ ChangeInv' /\ RunningTurnKept' /\ WorkIsFenced' /\ IntegrationApplied'
    <3>1. EntryInv /\ FenceInv /\ ChangeInv /\ RunningTurnKept /\ WorkIsFenced /\ IntegrationApplied
      BY <2>2, EvictionsStay DEF RuntimesInv
    <3>2. EntryInv' /\ FenceInv' /\ ChangeInv'
      BY <2>2, <3>1, EntryKept, FenceKept, ChangeKept DEF RuntimesInv
    <3>3. RunningTurnKept' /\ WorkIsFenced' /\ IntegrationApplied'
      BY <2>2, <3>1, TurnKept, FencedKept, AppliedKept DEF RuntimesInv
    <3> QED
      BY <3>2, <3>3
  <2> QED
    BY <2>1, <2>2 DEF RuntimesInv
<1>2. CASE UNCHANGED vars
  <2> USE <1>2 DEF vars, registryVars, leaseVars, adapterVars, turnVars, historyVars
  <2>1. TypeOK' /\ SlotInv' /\ RuntimeInv' /\ AdmissionInv' /\ TimerIsSafe' /\ LogIsLive'
    BY DEF RuntimesInv, TypeOK, SlotInv, RuntimeInv, AdmissionInv, TimerIsSafe, LogIsLive, CreationExcludesTurn, InSlot
  <2>2. UNCHANGED evicted /\ (EntryInv => EntryInv') /\ (FenceInv => FenceInv') /\ (ChangeInv => ChangeInv')
    BY DEF EntryInv, FenceInv, ChangeInv, Doomed
  <2>3. /\ RunningTurnKept => RunningTurnKept'
        /\ WorkIsFenced => WorkIsFenced'
        /\ IntegrationApplied => IntegrationApplied'
    BY DEF RunningTurnKept, WorkIsFenced, IntegrationApplied, Running
  <2> QED
    BY <2>1, <2>2, <2>3 DEF RuntimesInv
<1> QED
  BY <1>1, <1>2 DEF Next

\* The runtimes of a session, their slot and their log stay in order.
THEOREM RuntimesCorrect == Spec => []RuntimesInv
<1> QED
  BY RuntimesStart, RuntimesStep, PTL DEF Spec

\* One turn at a time has the slot, nobody creates a runtime beside it, an idle timer never
\* runs out under it, and its log is the one that readers get.
THEOREM RuntimeInvariantHolds == Spec => []RuntimeInvariant
<1>1. RuntimesInv => OneStream
  <2> SUFFICES ASSUME RuntimesInv PROVE OneStream
    OBVIOUS
  <2> DEFINE S == {t \in Turns : InSlot(t)}
  <2>1. CASE active
    <3>1. PICK t \in Turns : S = {t}
      BY <2>1 DEF RuntimesInv, SlotInv
    <3>2. Cardinality(S) = 1
      BY <3>1, FS_Singleton
    <3> QED
      BY <2>1, <3>2 DEF OneStream
  <2>2. CASE ~active
    <3>1. S = {}
      BY <2>2 DEF RuntimesInv, SlotInv
    <3>2. Cardinality(S) = 0
      BY <3>1, FS_EmptySet
    <3> QED
      BY <2>2, <3>2 DEF OneStream
  <2> QED
    BY <2>1, <2>2
<1>2. RuntimesInv => RuntimeInvariant
  BY <1>1 DEF RuntimesInv, SlotInv, RuntimeInvariant
<1> QED
  BY <1>2, RuntimesCorrect, PTL

\* A running turn is not ended by what others do.
THEOREM RunningTurnKeptHolds == Spec => []RunningTurnKept
<1>1. RuntimesInv => RunningTurnKept
  BY DEF RuntimesInv, RunningTurnKept
<1> QED
  BY <1>1, RuntimesCorrect, PTL

\* A turn calls the model only as its own execution.
THEOREM WorkIsFencedHolds == Spec => []WorkIsFenced
<1>1. RuntimesInv => WorkIsFenced
  BY DEF RuntimesInv, WorkIsFenced
<1> QED
  BY <1>1, RuntimesCorrect, PTL

\* A turn does not run on a runtime that was outdated when it was admitted.
THEOREM IntegrationAppliedHolds == Spec => []IntegrationApplied
<1>1. RuntimesInv => IntegrationApplied
  BY DEF RuntimesInv, IntegrationApplied
<1> QED
  BY <1>1, RuntimesCorrect, PTL
=============================================================================
