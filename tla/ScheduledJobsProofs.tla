------------------------ MODULE ScheduledJobsProofs ------------------------
(***************************************************************************)
(* Proofs about ScheduledJobs, for any number of ticks, slots and other    *)
(* runs, any limit of failures and any deadlines.                          *)
(***************************************************************************)
EXTENDS ScheduledJobs, FiniteSetTheorems, TLAPS

-----------------------------------------------------------------------------
(* The inductive invariant                                                 *)

\* The shape of the state in parts; only the type of `active` is missing.
Flags ==
  /\ enabled \in BOOLEAN /\ stale \in BOOLEAN /\ elsewhere \in BOOLEAN /\ excused \in BOOLEAN
  /\ orphan \in BOOLEAN /\ outdated \in BOOLEAN
  /\ counts \in BOOLEAN /\ expired \in BOOLEAN /\ ignored \in BOOLEAN /\ slow \in BOOLEAN
Numbers ==
  /\ due \in 0..1 /\ fails \in 0..MaxFailures /\ others \in 0..MaxOthers
  /\ waited \in 0..SettleGrace /\ age \in 0..Cutoff + 1
Places ==
  /\ phase \in {"up", "stopping", "closed", "off", "dead"}
  /\ tick \in [Ticks -> {"idle", "listing", "claiming", "pausing"}]
  /\ next \in [Ticks -> 0..1] /\ fired \in {"no", "once", "late", "twice"}
  /\ at \in {"none", "claimed", "preparing", "starting", "streaming", "succeeding", "failing",
             "rich", "rewriting", "closing", "recording", "counting", "disabling", "settled"}
  /\ watch \in {"racing", "aborting", "grace", "gone"}
  /\ row \in {"none", "pending", "completed", "failed", "swept"}
  /\ msg \in {"none", "pending", "completed", "failed"} /\ out \in {"none", "completed", "failed"}

\* A job that was claimed in time is due again in the next period.
FireInv == fired # "twice" /\ (fired = "once" /\ enabled => due = 1)

\* The row, the message and the outcome go together until the row is written.
OutInv ==
  /\ at = "none" => row \in {"none", "pending"} /\ watch \in {"aborting", "gone"}
  /\ at = "rich" => msg = out
  /\ at = "rewriting" => out = "failed"
  /\ at \in {"closing", "recording"} /\ out = "completed" => msg = "completed" /\ ~expired
  /\ row = "completed" => at \in {"counting", "disabling", "settled"} /\ msg = "completed" /\ ~expired

\* A pending row is no older than its watchdog has let it become.
AgeInv ==
  at # "none" /\ row = "pending" /\ ~slow =>
    /\ watch \in {"racing", "aborting"} => age <= JobTimeout
    /\ watch = "grace" => age <= JobTimeout + waited

JobInv ==
  /\ TypeOK /\ SlotsBalance /\ NoTurnAfterAbort /\ FireInv /\ OutInv /\ AgeInv
  /\ SweptWasGivenUp /\ PoisonStops /\ RunsAreRecorded

-----------------------------------------------------------------------------
(* The steps, by what they are about                                       *)

ListStep(k) == StartTick(k) \/ StartTickUnswept(k) \/ GiveUp(k) \/ PauseJob(k)
ClaimStep(k) == Reserve(k) \/ Claim(k) \/ ClaimOther(k) \/ ClaimThrows(k) \/ ClaimRefused(k)
TurnStep == CreateRun \/ Prepare \/ FailTurn \/ StartTurn \/ EndTurn
OutcomeStep == WriteOutcome \/ WriteOutcomeFails \/ Settle \/ Rewrite \/ Reclaim \/ Record
CountStep == Count \/ CountThrows \/ Disable \/ DisableFails
EndStep == EndRun \/ OtherEnds
WatchStep == Timeout \/ AbortEnds \/ GraceEnds
ElsewhereStep == ClaimElsewhere \/ CountElsewhere \/ DisableElsewhere
OwnerStep == ElsewhereStep \/ Save \/ SecurityChange
ProcessStep == Stop \/ CloseRuntimes \/ Drain \/ Crash \/ Restart

\* Every step is about one of these.
LEMMA StepCases ==
  ASSUME [Next]_vars
  PROVE  \/ \E k \in Ticks : ListStep(k) \/ ClaimStep(k)
         \/ TurnStep \/ OutcomeStep \/ CountStep \/ EndStep \/ WatchStep \/ OwnerStep \/ ProcessStep \/ Clock
         \/ UNCHANGED vars
BY DEF Next, TickStep, RunStep, ListStep, ClaimStep, TurnStep, OutcomeStep, CountStep, EndStep, WatchStep, OwnerStep,
       ProcessStep, ElsewhereStep

\* Other runs, the owner and an administrator leave the modelled run alone.
LEMMA OwnerLeavesRun ==
  ASSUME OwnerStep
  PROVE  UNCHANGED <<workerVars, tick, at, watchVars, rowVars, msg, out, counts, expired>>
BY DEF OwnerStep, ElsewhereStep, ClaimElsewhere, CountElsewhere, DisableElsewhere, Save, SecurityChange,
       workerVars, tickVars, watchVars, rowVars, turnVars

-----------------------------------------------------------------------------
(* The shape of the state                                                  *)

\* The flags stay flags.
LEMMA FlagsKept ==
  ASSUME TypeOK, [Next]_vars
  PROVE  Flags'
<1> USE DEF TypeOK, Flags, runOnly, watchOnly, jobVars, workerVars, tickVars, watchVars, rowVars, turnVars
<1>1. ASSUME NEW k \in Ticks, ListStep(k) PROVE Flags'
  BY <1>1 DEF ListStep, StartTick, StartTickUnswept, GiveUp, PauseJob, Sweeps, Pauses
<1>2. ASSUME NEW k \in Ticks, ClaimStep(k) PROVE Flags'
  BY <1>2 DEF ClaimStep, Reserve, Claim, ClaimOther, ClaimThrows, ClaimRefused, TakeDueTime, ClaimedAgain,
      Claimable, Free
<1>3. ASSUME TurnStep PROVE Flags'
  BY <1>3 DEF TurnStep, CreateRun, Prepare, FailTurn, StartTurn, EndTurn, Go, Pauses
<1>4. ASSUME OutcomeStep PROVE Flags'
  <2>1. CASE WriteOutcome
    BY <2>1 DEF WriteOutcome, Go, Decide
  <2>2. CASE WriteOutcomeFails
    BY <2>2 DEF WriteOutcomeFails, Go, Decide
  <2>3. CASE Settle
    BY <2>3 DEF Settle, Go, TimedOut
  <2>4. CASE Rewrite
    BY <2>4 DEF Rewrite, Go
  <2>5. CASE Reclaim
    BY <2>5 DEF Reclaim, Go
  <2>6. CASE Record
    BY <2>6 DEF Record, Go
  <2> QED
    BY <1>4, <2>1, <2>2, <2>3, <2>4, <2>5, <2>6 DEF OutcomeStep
<1>5. ASSUME CountStep PROVE Flags'
  BY <1>5 DEF CountStep, Count, CountThrows, Disable, DisableFails, CountedFails, OneMore, Go
<1>6. ASSUME EndStep PROVE Flags'
  BY <1>6 DEF EndStep, EndRun, OtherEnds, Forgotten, Go
<1>7. ASSUME WatchStep PROVE Flags'
  BY <1>7 DEF WatchStep, Timeout, AbortEnds, GraceEnds
<1>8. ASSUME OwnerStep PROVE Flags'
  <2>1. CASE ClaimElsewhere
    BY <2>1 DEF ClaimElsewhere, ClaimedAgain, Claimable
  <2>2. CASE CountElsewhere
    BY <2>2 DEF CountElsewhere, ReportElsewhere, ReportElsewhereFails, OneMore
  <2>3. CASE Save
    BY <2>3 DEF Save
  <2>4. CASE SecurityChange
    <3>1. outdated' \in BOOLEAN
      <4>1. CASE at \in {"claimed", "preparing", "starting"}
        BY <2>4, <4>1 DEF SecurityChange
      <4>2. CASE at \notin {"claimed", "preparing", "starting"}
        BY <2>4, <4>2 DEF SecurityChange
      <4> QED
        BY <4>1, <4>2
    <3>2. enabled' \in BOOLEAN /\ stale' \in BOOLEAN /\ excused' \in BOOLEAN
      BY <2>4 DEF SecurityChange
    <3>3. UNCHANGED <<elsewhere, orphan, counts, expired, ignored, slow>>
      BY <2>4 DEF SecurityChange
    <3> QED
      BY <3>1, <3>2, <3>3
  <2>5. CASE DisableElsewhere
    BY <2>5 DEF DisableElsewhere
  <2> QED
    BY <1>8, <2>1, <2>2, <2>3, <2>4, <2>5 DEF OwnerStep, ElsewhereStep
<1>9. ASSUME ProcessStep PROVE Flags'
  BY <1>9 DEF ProcessStep, Stop, CloseRuntimes, Drain, Crash, Restart, Forgotten, InFlight
<1>10. ASSUME Clock PROVE Flags'
  BY <1>10 DEF Clock, TimerDue
<1>11. ASSUME UNCHANGED vars PROVE Flags'
  BY <1>11 DEF vars
<1> QED
  BY <1>1, <1>2, <1>3, <1>4, <1>5, <1>6, <1>7, <1>8, <1>9, <1>10, <1>11, StepCases

\* The counters and ages stay in their bounds.
LEMMA NumbersKept ==
  ASSUME TypeOK, [Next]_vars
  PROVE  Numbers'
<1> USE ScheduleAssumption DEF TypeOK, Numbers, Cutoff, runOnly, watchOnly, jobVars, workerVars, tickVars,
    watchVars, rowVars, turnVars
<1>1. ASSUME NEW k \in Ticks, ListStep(k) PROVE Numbers'
  BY <1>1 DEF ListStep, StartTick, StartTickUnswept, GiveUp, PauseJob, Sweeps, Pauses
<1>2. ASSUME NEW k \in Ticks, ClaimStep(k) PROVE Numbers'
  BY <1>2 DEF ClaimStep, Reserve, Claim, ClaimOther, ClaimThrows, ClaimRefused, TakeDueTime, ClaimedAgain,
      Claimable, Free
<1>3. ASSUME TurnStep PROVE Numbers'
  BY <1>3 DEF TurnStep, CreateRun, Prepare, FailTurn, StartTurn, EndTurn, Go, Pauses
<1>4. ASSUME OutcomeStep PROVE Numbers'
  BY <1>4 DEF OutcomeStep, WriteOutcome, WriteOutcomeFails, Settle, Rewrite, Reclaim, Record, Go, Decide,
      TimedOut
<1>5. ASSUME CountStep PROVE Numbers'
  BY <1>5 DEF CountStep, Count, CountThrows, Disable, DisableFails, CountedFails, OneMore, Go
<1>6. ASSUME EndStep PROVE Numbers'
  BY <1>6 DEF EndStep, EndRun, OtherEnds, Forgotten, Go
<1>7. ASSUME WatchStep PROVE Numbers'
  BY <1>7 DEF WatchStep, Timeout, AbortEnds, GraceEnds
<1>8. ASSUME OwnerStep PROVE Numbers'
  <2>1. CASE ClaimElsewhere
    BY <2>1 DEF ClaimElsewhere, ClaimedAgain, Claimable
  <2>2. CASE CountElsewhere
    <3>1. fails' \in 0..MaxFailures
      BY <2>2 DEF CountElsewhere, ReportElsewhere, ReportElsewhereFails, OneMore
    <3>2. due' \in 0..1 /\ UNCHANGED <<others, waited, age>>
      BY <2>2 DEF CountElsewhere
    <3> QED
      BY <3>1, <3>2
  <2>3. CASE Save
    BY <2>3 DEF Save
  <2>4. CASE SecurityChange
    BY <2>4 DEF SecurityChange
  <2>5. CASE DisableElsewhere
    BY <2>5 DEF DisableElsewhere
  <2> QED
    BY <1>8, <2>1, <2>2, <2>3, <2>4, <2>5 DEF OwnerStep, ElsewhereStep
<1>9. ASSUME ProcessStep PROVE Numbers'
  BY <1>9 DEF ProcessStep, Stop, CloseRuntimes, Drain, Crash, Restart, Forgotten, InFlight
<1>10. ASSUME Clock PROVE Numbers'
  BY <1>10 DEF Clock, TimerDue
<1>11. ASSUME UNCHANGED vars PROVE Numbers'
  BY <1>11 DEF vars
<1> QED
  BY <1>1, <1>2, <1>3, <1>4, <1>5, <1>6, <1>7, <1>8, <1>9, <1>10, <1>11, StepCases

\* Every actor is where it can be.
LEMMA PlacesKept ==
  ASSUME TypeOK, [Next]_vars
  PROVE  Places'
<1> USE DEF TypeOK, Places, runOnly, watchOnly, jobVars, workerVars, tickVars, watchVars, rowVars, turnVars
<1>1. ASSUME NEW k \in Ticks, ListStep(k) PROVE Places'
  BY <1>1 DEF ListStep, StartTick, StartTickUnswept, GiveUp, PauseJob, Sweeps, Pauses
<1>2. ASSUME NEW k \in Ticks, ClaimStep(k) PROVE Places'
  BY <1>2 DEF ClaimStep, Reserve, Claim, ClaimOther, ClaimThrows, ClaimRefused, TakeDueTime, ClaimedAgain,
      Claimable, Free
<1>3. ASSUME TurnStep PROVE Places'
  BY <1>3 DEF TurnStep, CreateRun, Prepare, FailTurn, StartTurn, EndTurn, Go, Pauses
<1>4. ASSUME OutcomeStep PROVE Places'
  BY <1>4 DEF OutcomeStep, WriteOutcome, WriteOutcomeFails, Settle, Rewrite, Reclaim, Record, Go, Decide,
      TimedOut
<1>5. ASSUME CountStep PROVE Places'
  BY <1>5 DEF CountStep, Count, CountThrows, Disable, DisableFails, CountedFails, OneMore, Go
<1>6. ASSUME EndStep PROVE Places'
  BY <1>6 DEF EndStep, EndRun, OtherEnds, Forgotten, Go
<1>7. ASSUME WatchStep PROVE Places'
  BY <1>7 DEF WatchStep, Timeout, AbortEnds, GraceEnds
<1>8. ASSUME OwnerStep PROVE Places'
  <2>1. CASE ClaimElsewhere
    BY <2>1 DEF ClaimElsewhere, ClaimedAgain, Claimable
  <2>2. CASE CountElsewhere
    BY <2>2 DEF CountElsewhere, ReportElsewhere, ReportElsewhereFails, OneMore
  <2>3. CASE Save
    BY <2>3 DEF Save
  <2>4. CASE SecurityChange
    BY <2>4 DEF SecurityChange
  <2>5. CASE DisableElsewhere
    BY <2>5 DEF DisableElsewhere
  <2> QED
    BY <1>8, <2>1, <2>2, <2>3, <2>4, <2>5 DEF OwnerStep, ElsewhereStep
<1>9. ASSUME ProcessStep PROVE Places'
  BY <1>9 DEF ProcessStep, Stop, CloseRuntimes, Drain, Crash, Restart, Forgotten, InFlight
<1>10. ASSUME Clock PROVE Places'
  BY <1>10 DEF Clock, TimerDue
<1>11. ASSUME UNCHANGED vars PROVE Places'
  BY <1>11 DEF vars
<1> QED
  BY <1>1, <1>2, <1>3, <1>4, <1>5, <1>6, <1>7, <1>8, <1>9, <1>10, <1>11, StepCases

-----------------------------------------------------------------------------
(* The promises, one by one                                                *)

\* In one period the job is claimed once.
LEMMA FireKept ==
  ASSUME TypeOK, FireInv, [Next]_vars
  PROVE  FireInv'
<1> USE DEF TypeOK, FireInv, runOnly, watchOnly, jobVars, workerVars, tickVars, watchVars, rowVars, turnVars
<1>1. ASSUME NEW k \in Ticks, ListStep(k) PROVE FireInv'
  BY <1>1 DEF ListStep, StartTick, StartTickUnswept, GiveUp, PauseJob, Sweeps, Pauses
<1>2. ASSUME NEW k \in Ticks, ClaimStep(k) PROVE FireInv'
  BY <1>2 DEF ClaimStep, Reserve, Claim, ClaimOther, ClaimThrows, ClaimRefused, TakeDueTime, ClaimedAgain,
      Claimable, Free
<1>3. ASSUME TurnStep PROVE FireInv'
  BY <1>3 DEF TurnStep, CreateRun, Prepare, FailTurn, StartTurn, EndTurn, Go, Pauses
<1>4. ASSUME OutcomeStep PROVE FireInv'
  BY <1>4 DEF OutcomeStep, WriteOutcome, WriteOutcomeFails, Settle, Rewrite, Reclaim, Record, Go, Decide,
      TimedOut
<1>5. ASSUME CountStep PROVE FireInv'
  BY <1>5 DEF CountStep, Count, CountThrows, Disable, DisableFails, CountedFails, OneMore, Go
<1>6. ASSUME EndStep PROVE FireInv'
  BY <1>6 DEF EndStep, EndRun, OtherEnds, Forgotten, Go
<1>7. ASSUME WatchStep PROVE FireInv'
  BY <1>7 DEF WatchStep, Timeout, AbortEnds, GraceEnds
<1>8. ASSUME OwnerStep PROVE FireInv'
  <2>1. CASE ClaimElsewhere
    BY <2>1 DEF ClaimElsewhere, ClaimedAgain, Claimable
  <2>2. CASE CountElsewhere
    BY <2>2 DEF CountElsewhere, ReportElsewhere, ReportElsewhereFails, OneMore
  <2>3. CASE Save
    BY <2>3 DEF Save
  <2>4. CASE SecurityChange
    BY <2>4 DEF SecurityChange
  <2>5. CASE DisableElsewhere
    BY <2>5 DEF DisableElsewhere
  <2> QED
    BY <1>8, <2>1, <2>2, <2>3, <2>4, <2>5 DEF OwnerStep, ElsewhereStep
<1>9. ASSUME ProcessStep PROVE FireInv'
  BY <1>9 DEF ProcessStep, Stop, CloseRuntimes, Drain, Crash, Restart, Forgotten, InFlight
<1>10. ASSUME Clock PROVE FireInv'
  BY <1>10 DEF Clock, TimerDue
<1>11. ASSUME UNCHANGED vars PROVE FireInv'
  BY <1>11 DEF vars
<1> QED
  BY <1>1, <1>2, <1>3, <1>4, <1>5, <1>6, <1>7, <1>8, <1>9, <1>10, <1>11, StepCases

\* No turn outlives its abort.
LEMMA AbortKept ==
  ASSUME TypeOK, NoTurnAfterAbort, [Next]_vars
  PROVE  NoTurnAfterAbort'
<1> USE DEF TypeOK, NoTurnAfterAbort, runOnly, watchOnly, jobVars, workerVars, tickVars, watchVars, rowVars,
    turnVars
<1>1. ASSUME NEW k \in Ticks, ListStep(k) PROVE NoTurnAfterAbort'
  BY <1>1 DEF ListStep, StartTick, StartTickUnswept, GiveUp, PauseJob, Sweeps, Pauses
<1>2. ASSUME NEW k \in Ticks, ClaimStep(k) PROVE NoTurnAfterAbort'
  BY <1>2 DEF ClaimStep, Reserve, Claim, ClaimOther, ClaimThrows, ClaimRefused, TakeDueTime, ClaimedAgain,
      Claimable, Free
<1>3. ASSUME TurnStep PROVE NoTurnAfterAbort'
  BY <1>3 DEF TurnStep, CreateRun, Prepare, FailTurn, StartTurn, EndTurn, Go, Pauses
<1>4. ASSUME OutcomeStep PROVE NoTurnAfterAbort'
  BY <1>4 DEF OutcomeStep, WriteOutcome, WriteOutcomeFails, Settle, Rewrite, Reclaim, Record, Go, Decide,
      TimedOut
<1>5. ASSUME CountStep PROVE NoTurnAfterAbort'
  BY <1>5 DEF CountStep, Count, CountThrows, Disable, DisableFails, CountedFails, OneMore, Go
<1>6. ASSUME EndStep PROVE NoTurnAfterAbort'
  BY <1>6 DEF EndStep, EndRun, OtherEnds, Forgotten, Go
<1>7. ASSUME WatchStep PROVE NoTurnAfterAbort'
  BY <1>7 DEF WatchStep, Timeout, AbortEnds, GraceEnds
<1>8. ASSUME OwnerStep PROVE NoTurnAfterAbort'
  BY <1>8, OwnerLeavesRun
<1>9. ASSUME ProcessStep PROVE NoTurnAfterAbort'
  BY <1>9 DEF ProcessStep, Stop, CloseRuntimes, Drain, Crash, Restart, Forgotten, InFlight
<1>10. ASSUME Clock PROVE NoTurnAfterAbort'
  BY <1>10 DEF Clock, TimerDue
<1>11. ASSUME UNCHANGED vars PROVE NoTurnAfterAbort'
  BY <1>11 DEF vars
<1> QED
  BY <1>1, <1>2, <1>3, <1>4, <1>5, <1>6, <1>7, <1>8, <1>9, <1>10, <1>11, StepCases

\* Row, message and outcome agree.
LEMMA OutcomeKept ==
  ASSUME TypeOK, OutInv, [Next]_vars
  PROVE  OutInv'
<1> USE DEF TypeOK, OutInv, runOnly, watchOnly, jobVars, workerVars, tickVars, watchVars, rowVars, turnVars
<1>1. ASSUME NEW k \in Ticks, ListStep(k) PROVE OutInv'
  BY <1>1 DEF ListStep, StartTick, StartTickUnswept, GiveUp, PauseJob, Sweeps, Pauses
<1>2. ASSUME NEW k \in Ticks, ClaimStep(k) PROVE OutInv'
  BY <1>2 DEF ClaimStep, Reserve, Claim, ClaimOther, ClaimThrows, ClaimRefused, TakeDueTime, ClaimedAgain,
      Claimable, Free
<1>3. ASSUME TurnStep PROVE OutInv'
  BY <1>3 DEF TurnStep, CreateRun, Prepare, FailTurn, StartTurn, EndTurn, Go, Pauses
<1>4. ASSUME OutcomeStep PROVE OutInv'
  <2>1. CASE WriteOutcome
    BY <2>1 DEF WriteOutcome, Go, Decide
  <2>2. CASE WriteOutcomeFails
    BY <2>2 DEF WriteOutcomeFails, Go, Decide
  <2>3. CASE Settle
    BY <2>3 DEF Settle, Go, TimedOut
  <2>4. CASE Rewrite
    BY <2>4 DEF Rewrite, Go
  <2>5. CASE Reclaim
    BY <2>5 DEF Reclaim, Go
  <2>6. CASE Record
    BY <2>6 DEF Record, Go
  <2> QED
    BY <1>4, <2>1, <2>2, <2>3, <2>4, <2>5, <2>6 DEF OutcomeStep
<1>5. ASSUME CountStep PROVE OutInv'
  BY <1>5 DEF CountStep, Count, CountThrows, Disable, DisableFails, CountedFails, OneMore, Go
<1>6. ASSUME EndStep PROVE OutInv'
  BY <1>6 DEF EndStep, EndRun, OtherEnds, Forgotten, Go
<1>7. ASSUME WatchStep PROVE OutInv'
  BY <1>7 DEF WatchStep, Timeout, AbortEnds, GraceEnds
<1>8. ASSUME OwnerStep PROVE OutInv'
  BY <1>8, OwnerLeavesRun
<1>9. ASSUME ProcessStep PROVE OutInv'
  BY <1>9 DEF ProcessStep, Stop, CloseRuntimes, Drain, Crash, Restart, Forgotten, InFlight
<1>10. ASSUME Clock PROVE OutInv'
  BY <1>10 DEF Clock, TimerDue
<1>11. ASSUME UNCHANGED vars PROVE OutInv'
  BY <1>11 DEF vars
<1> QED
  BY <1>1, <1>2, <1>3, <1>4, <1>5, <1>6, <1>7, <1>8, <1>9, <1>10, <1>11, StepCases

\* A pending row is not older than its watchdog allows.
LEMMA AgeKept ==
  ASSUME TypeOK, AgeInv, OutInv, [Next]_vars
  PROVE  AgeInv'
<1> USE ScheduleAssumption DEF TypeOK, AgeInv, OutInv, Cutoff, runOnly, watchOnly, jobVars, workerVars,
    tickVars, watchVars, rowVars, turnVars
<1>1. ASSUME NEW k \in Ticks, ListStep(k) PROVE AgeInv'
  BY <1>1 DEF ListStep, StartTick, StartTickUnswept, GiveUp, PauseJob, Sweeps, Pauses
<1>2. ASSUME NEW k \in Ticks, ClaimStep(k) PROVE AgeInv'
  BY <1>2 DEF ClaimStep, Reserve, Claim, ClaimOther, ClaimThrows, ClaimRefused, TakeDueTime, ClaimedAgain,
      Claimable, Free
<1>3. ASSUME TurnStep PROVE AgeInv'
  BY <1>3 DEF TurnStep, CreateRun, Prepare, FailTurn, StartTurn, EndTurn, Go, Pauses
<1>4. ASSUME OutcomeStep PROVE AgeInv'
  BY <1>4 DEF OutcomeStep, WriteOutcome, WriteOutcomeFails, Settle, Rewrite, Reclaim, Record, Go, Decide,
      TimedOut
<1>5. ASSUME CountStep PROVE AgeInv'
  BY <1>5 DEF CountStep, Count, CountThrows, Disable, DisableFails, CountedFails, OneMore, Go
<1>6. ASSUME EndStep PROVE AgeInv'
  BY <1>6 DEF EndStep, EndRun, OtherEnds, Forgotten, Go
<1>7. ASSUME WatchStep PROVE AgeInv'
  BY <1>7 DEF WatchStep, Timeout, AbortEnds, GraceEnds
<1>8. ASSUME OwnerStep PROVE AgeInv'
  BY <1>8, OwnerLeavesRun
<1>9. ASSUME ProcessStep PROVE AgeInv'
  BY <1>9 DEF ProcessStep, Stop, CloseRuntimes, Drain, Crash, Restart, Forgotten, InFlight
<1>10. ASSUME Clock PROVE AgeInv'
  <2> SUFFICES ASSUME at # "none", row = "pending", ~slow'
               PROVE  /\ watch \in {"racing", "aborting"} => age' <= JobTimeout
                      /\ watch = "grace" => age' <= JobTimeout + waited'
    BY <1>10 DEF Clock
  <2>1. ~slow /\ watch # "aborting"
    BY <1>10 DEF Clock
  <2>2. age \in Nat /\ age' \in {age, age + 1}
    BY <1>10 DEF Clock
  <2>3. CASE watch = "racing"
    BY <1>10, <2>1, <2>2, <2>3 DEF Clock, TimerDue
  <2>4. CASE watch = "grace"
    <3>1. waited \in Nat /\ waited' = waited + 1 /\ age <= JobTimeout + waited
      BY <1>10, <2>1, <2>4 DEF Clock
    <3> QED
      BY <2>2, <2>4, <3>1
  <2> QED
    BY <2>1, <2>3, <2>4
<1>11. ASSUME UNCHANGED vars PROVE AgeInv'
  BY <1>11 DEF vars
<1> QED
  BY <1>1, <1>2, <1>3, <1>4, <1>5, <1>6, <1>7, <1>8, <1>9, <1>10, <1>11, StepCases

\* A swept run was given up.
LEMMA SweptKept ==
  ASSUME TypeOK, AgeInv, OutInv, SweptWasGivenUp, [Next]_vars
  PROVE  SweptWasGivenUp'
<1> USE ScheduleAssumption DEF TypeOK, AgeInv, OutInv, SweptWasGivenUp, Cutoff, ScheduleAssumption, runOnly,
    watchOnly, jobVars, workerVars, tickVars, watchVars, rowVars, turnVars
<1>1. ASSUME NEW k \in Ticks, ListStep(k) PROVE SweptWasGivenUp'
  BY <1>1 DEF ListStep, StartTick, StartTickUnswept, GiveUp, PauseJob, Sweeps, Pauses
<1>2. ASSUME NEW k \in Ticks, ClaimStep(k) PROVE SweptWasGivenUp'
  BY <1>2 DEF ClaimStep, Reserve, Claim, ClaimOther, ClaimThrows, ClaimRefused, TakeDueTime, ClaimedAgain,
      Claimable, Free
<1>3. ASSUME TurnStep PROVE SweptWasGivenUp'
  BY <1>3 DEF TurnStep, CreateRun, Prepare, FailTurn, StartTurn, EndTurn, Go, Pauses
<1>4. ASSUME OutcomeStep PROVE SweptWasGivenUp'
  BY <1>4 DEF OutcomeStep, WriteOutcome, WriteOutcomeFails, Settle, Rewrite, Reclaim, Record, Go, Decide,
      TimedOut
<1>5. ASSUME CountStep PROVE SweptWasGivenUp'
  BY <1>5 DEF CountStep, Count, CountThrows, Disable, DisableFails, CountedFails, OneMore, Go
<1>6. ASSUME EndStep PROVE SweptWasGivenUp'
  BY <1>6 DEF EndStep, EndRun, OtherEnds, Forgotten, Go
<1>7. ASSUME WatchStep PROVE SweptWasGivenUp'
  BY <1>7 DEF WatchStep, Timeout, AbortEnds, GraceEnds
<1>8. ASSUME OwnerStep PROVE SweptWasGivenUp'
  BY <1>8, OwnerLeavesRun
<1>9. ASSUME ProcessStep PROVE SweptWasGivenUp'
  BY <1>9 DEF ProcessStep, Stop, CloseRuntimes, Drain, Crash, Restart, Forgotten, InFlight
<1>10. ASSUME Clock PROVE SweptWasGivenUp'
  BY <1>10 DEF Clock, TimerDue
<1>11. ASSUME UNCHANGED vars PROVE SweptWasGivenUp'
  BY <1>11 DEF vars
<1> QED
  BY <1>1, <1>2, <1>3, <1>4, <1>5, <1>6, <1>7, <1>8, <1>9, <1>10, <1>11, StepCases

\* A poisoned job is disabled.
LEMMA PoisonKept ==
  ASSUME TypeOK, PoisonStops, [Next]_vars
  PROVE  PoisonStops'
<1> USE ScheduleAssumption DEF TypeOK, PoisonStops, ScheduleAssumption, runOnly, watchOnly, jobVars,
    workerVars, tickVars, watchVars, rowVars, turnVars
<1>1. ASSUME NEW k \in Ticks, ListStep(k) PROVE PoisonStops'
  BY <1>1 DEF ListStep, StartTick, StartTickUnswept, GiveUp, PauseJob, Sweeps, Pauses
<1>2. ASSUME NEW k \in Ticks, ClaimStep(k) PROVE PoisonStops'
  BY <1>2 DEF ClaimStep, Reserve, Claim, ClaimOther, ClaimThrows, ClaimRefused, TakeDueTime, ClaimedAgain,
      Claimable, Free
<1>3. ASSUME TurnStep PROVE PoisonStops'
  BY <1>3 DEF TurnStep, CreateRun, Prepare, FailTurn, StartTurn, EndTurn, Go, Pauses
<1>4. ASSUME OutcomeStep PROVE PoisonStops'
  BY <1>4 DEF OutcomeStep, WriteOutcome, WriteOutcomeFails, Settle, Rewrite, Reclaim, Record, Go, Decide,
      TimedOut
<1>5. ASSUME CountStep PROVE PoisonStops'
  <2>1. CASE Count
    BY <2>1 DEF Count, CountedFails, OneMore
  <2>2. CASE CountThrows
    BY <2>2 DEF CountThrows, CountedFails, OneMore, Go
  <2>3. CASE Disable
    BY <2>3 DEF Disable, Go
  <2>4. CASE DisableFails
    BY <2>4 DEF DisableFails, Go
  <2> QED
    BY <1>5, <2>1, <2>2, <2>3, <2>4 DEF CountStep
<1>6. ASSUME EndStep PROVE PoisonStops'
  BY <1>6 DEF EndStep, EndRun, OtherEnds, Forgotten, Go
<1>7. ASSUME WatchStep PROVE PoisonStops'
  BY <1>7 DEF WatchStep, Timeout, AbortEnds, GraceEnds
<1>8. ASSUME OwnerStep PROVE PoisonStops'
  <2>1. CASE ClaimElsewhere
    BY <2>1 DEF ClaimElsewhere, ClaimedAgain, Claimable
  <2>2. CASE CountElsewhere
    <3>1. UNCHANGED <<enabled, at>>
      BY <2>2 DEF CountElsewhere
    <3>2. CASE ReportElsewhere /\ fails' = 0
      BY <3>2
    <3>3. CASE ReportElsewhere /\ fails' # 0
      <4>1. CASE fails' < MaxFailures
        <5>1. fails' \in Nat
          BY <3>3 DEF ReportElsewhere, OneMore
        <5> QED
          BY <4>1, <5>1
      <4>2. CASE ~(fails' < MaxFailures)
        BY <3>3, <4>2 DEF ReportElsewhere
      <4> QED
        BY <4>1, <4>2
    <3>4. CASE ReportElsewhereFails
      <4>1. enabled' /\ fails' >= MaxFailures => excused'
        BY <3>1, <3>4, Zenon DEF ReportElsewhereFails
      <4> QED
        BY <4>1
    <3> QED
      BY <2>2, <3>2, <3>3, <3>4 DEF CountElsewhere
  <2>3. CASE Save
    <3>1. fails' = fails
      BY <2>3 DEF Save
    <3>2. PICK on \in BOOLEAN : enabled' = on /\ excused' = (on /\ fails >= MaxFailures)
      BY <2>3 DEF Save
    <3>3. enabled' /\ fails >= MaxFailures => excused'
      BY <3>2, Zenon
    <3> QED
      BY <3>1, <3>3
  <2>4. CASE SecurityChange
    BY <2>4 DEF SecurityChange
  <2>5. CASE DisableElsewhere
    BY <2>5 DEF DisableElsewhere
  <2> QED
    BY <1>8, <2>1, <2>2, <2>3, <2>4, <2>5 DEF OwnerStep, ElsewhereStep
<1>9. ASSUME ProcessStep PROVE PoisonStops'
  BY <1>9 DEF ProcessStep, Stop, CloseRuntimes, Drain, Crash, Restart, Forgotten, InFlight
<1>10. ASSUME Clock PROVE PoisonStops'
  BY <1>10 DEF Clock, TimerDue
<1>11. ASSUME UNCHANGED vars PROVE PoisonStops'
  BY <1>11 DEF vars
<1> QED
  BY <1>1, <1>2, <1>3, <1>4, <1>5, <1>6, <1>7, <1>8, <1>9, <1>10, <1>11, StepCases

\* A pending row has a run that writes its outcome, or is an orphan.
LEMMA RecordKept ==
  ASSUME TypeOK, RunsAreRecorded, [Next]_vars
  PROVE  RunsAreRecorded'
<1> USE DEF TypeOK, RunsAreRecorded, Alive, runOnly, watchOnly, jobVars, workerVars, tickVars, watchVars,
    rowVars, turnVars
<1>1. ASSUME NEW k \in Ticks, ListStep(k) PROVE RunsAreRecorded'
  BY <1>1 DEF ListStep, StartTick, StartTickUnswept, GiveUp, PauseJob, Sweeps, Pauses
<1>2. ASSUME NEW k \in Ticks, ClaimStep(k) PROVE RunsAreRecorded'
  BY <1>2 DEF ClaimStep, Reserve, Claim, ClaimOther, ClaimThrows, ClaimRefused, TakeDueTime, ClaimedAgain,
      Claimable, Free
<1>3. ASSUME TurnStep PROVE RunsAreRecorded'
  BY <1>3 DEF TurnStep, CreateRun, Prepare, FailTurn, StartTurn, EndTurn, Go, Pauses
<1>4. ASSUME OutcomeStep PROVE RunsAreRecorded'
  BY <1>4 DEF OutcomeStep, WriteOutcome, WriteOutcomeFails, Settle, Rewrite, Reclaim, Record, Go, Decide,
      TimedOut
<1>5. ASSUME CountStep PROVE RunsAreRecorded'
  BY <1>5 DEF CountStep, Count, CountThrows, Disable, DisableFails, CountedFails, OneMore, Go
<1>6. ASSUME EndStep PROVE RunsAreRecorded'
  BY <1>6 DEF EndStep, EndRun, OtherEnds, Forgotten, Go
<1>7. ASSUME WatchStep PROVE RunsAreRecorded'
  BY <1>7 DEF WatchStep, Timeout, AbortEnds, GraceEnds
<1>8. ASSUME OwnerStep PROVE RunsAreRecorded'
  BY <1>8, OwnerLeavesRun
<1>9. ASSUME ProcessStep PROVE RunsAreRecorded'
  BY <1>9 DEF ProcessStep, Stop, CloseRuntimes, Drain, Crash, Restart, Forgotten, InFlight
<1>10. ASSUME Clock PROVE RunsAreRecorded'
  BY <1>10 DEF Clock, TimerDue
<1>11. ASSUME UNCHANGED vars PROVE RunsAreRecorded'
  BY <1>11 DEF vars
<1> QED
  BY <1>1, <1>2, <1>3, <1>4, <1>5, <1>6, <1>7, <1>8, <1>9, <1>10, <1>11, StepCases

-----------------------------------------------------------------------------
(* The slots                                                               *)

\* The claims under way are counted by a natural number.
LEMMA ClaimingCounted == IsFiniteSet(Claiming) /\ Cardinality(Claiming) \in Nat
BY ScheduleAssumption, FS_Subset, FS_CardinalityType DEF Claiming

\* How the claims under way change with the place of one tick.
LEMMA TickMoves ==
  ASSUME TypeOK, NEW k \in Ticks, NEW to, tick' = [tick EXCEPT ![k] = to]
  PROVE  /\ tick[k] # "claiming" /\ to # "claiming" => Claiming' = Claiming
         /\ tick[k] # "claiming" /\ to = "claiming" => Cardinality(Claiming') = Cardinality(Claiming) + 1
         /\ tick[k] = "claiming" /\ to # "claiming" => Cardinality(Claiming') = Cardinality(Claiming) - 1
<1>1. \A i \in Ticks : tick'[i] = (IF i = k THEN to ELSE tick[i])
  BY DEF TypeOK
<1>2. CASE tick[k] # "claiming" /\ to # "claiming"
  BY <1>1, <1>2 DEF Claiming
<1>3. CASE tick[k] # "claiming" /\ to = "claiming"
  <2>1. Claiming' = Claiming \cup {k} /\ k \notin Claiming
    BY <1>1, <1>3 DEF Claiming
  <2> QED
    BY <1>3, <2>1, ClaimingCounted, FS_AddElement
<1>4. CASE tick[k] = "claiming" /\ to # "claiming"
  <2>1. Claiming' = Claiming \ {k} /\ k \in Claiming
    BY <1>1, <1>4 DEF Claiming
  <2> QED
    BY <1>4, <2>1, ClaimingCounted, FS_RemoveElement
<1> QED
  BY <1>2, <1>3, <1>4

\* A step that moves nothing that holds a slot keeps the balance.
LEMMA SameSlots ==
  ASSUME SlotsBalance, Claiming' = Claiming, UNCHANGED <<active, others>>, HoldsSlot' <=> HoldsSlot
  PROVE  SlotsBalance'
BY DEF SlotsBalance

\* The counter of the slots is right and within its limit.
LEMMA BalanceKept ==
  ASSUME TypeOK, SlotsBalance, [Next]_vars
  PROVE  SlotsBalance'
<1> USE ScheduleAssumption, ClaimingCounted
    DEF runOnly, watchOnly, jobVars, workerVars, tickVars, watchVars, rowVars, turnVars
<1> DEFINE Held == IF HoldsSlot THEN 1 ELSE 0
<1>0. /\ active \in Nat /\ others \in Nat /\ MaxJobs \in Nat
      /\ active = Cardinality(Claiming) + others + Held /\ active <= MaxJobs
  BY DEF TypeOK, SlotsBalance
<1>a. UNCHANGED <<tick, active, others, watch>> => SlotsBalance'
  <2>1. UNCHANGED <<tick, watch>> => Claiming' = Claiming /\ (HoldsSlot' <=> HoldsSlot)
    BY DEF Claiming, HoldsSlot
  <2> QED
    BY <2>1, SameSlots
<1>1. ASSUME NEW k \in Ticks, ListStep(k) PROVE SlotsBalance'
  <2>1. /\ UNCHANGED <<active, others, watch>>
        /\ \/ tick' = tick
           \/ tick[k] # "claiming" /\ tick' = [tick EXCEPT ![k] = "listing"]
           \/ tick[k] # "claiming" /\ tick' = [tick EXCEPT ![k] = "idle"]
    BY <1>1 DEF ListStep, StartTick, StartTickUnswept, GiveUp, PauseJob
  <2>2. Claiming' = Claiming
    BY <2>1, TickMoves DEF Claiming
  <2>3. HoldsSlot' <=> HoldsSlot
    BY <2>1 DEF HoldsSlot
  <2> QED
    BY <2>1, <2>2, <2>3, SameSlots
<1>2. ASSUME NEW k \in Ticks, ClaimStep(k) PROVE SlotsBalance'
  <2>1. CASE Reserve(k)
    <3>1. active' = active + 1 /\ active < MaxJobs /\ others' = others
      BY <2>1 DEF Reserve
    <3>2. HoldsSlot' <=> HoldsSlot
      BY <2>1 DEF Reserve, HoldsSlot
    <3>3. Cardinality(Claiming') = Cardinality(Claiming) + 1
      <4>1. tick[k] # "claiming" /\ tick' = [tick EXCEPT ![k] = "claiming"]
        BY <2>1 DEF Reserve
      <4> QED
        BY <4>1, TickMoves
    <3> QED
      BY <1>0, <3>1, <3>2, <3>3 DEF SlotsBalance
  <2>2. ASSUME Claim(k) \/ ClaimOther(k) \/ ClaimThrows(k) \/ ClaimRefused(k)
        PROVE  Cardinality(Claiming') = Cardinality(Claiming) - 1
    <3>1. /\ tick[k] = "claiming"
          /\ \/ tick' = [tick EXCEPT ![k] = "idle"] \/ tick' = [tick EXCEPT ![k] = "pausing"]
      BY <2>2 DEF Claim, ClaimOther, ClaimThrows, ClaimRefused
    <3> QED
      BY <3>1, TickMoves
  <2>3. CASE Claim(k)
    <3>1. active' = active /\ others' = others /\ ~HoldsSlot /\ HoldsSlot'
      BY <2>3 DEF Claim, Free, HoldsSlot
    <3> QED
      BY <1>0, <2>2, <2>3, <3>1 DEF SlotsBalance
  <2>4. CASE ClaimOther(k)
    <3>1. active' = active /\ others' = others + 1 /\ (HoldsSlot' <=> HoldsSlot)
      BY <2>4 DEF ClaimOther, HoldsSlot
    <3> QED
      BY <1>0, <2>2, <2>4, <3>1 DEF SlotsBalance
  <2>5. CASE ClaimThrows(k) \/ ClaimRefused(k)
    <3>1. active' = active - 1 /\ others' = others /\ (HoldsSlot' <=> HoldsSlot)
      BY <2>5 DEF ClaimThrows, ClaimRefused, HoldsSlot
    <3> QED
      BY <1>0, <2>2, <2>5, <3>1 DEF SlotsBalance
  <2> QED
    BY <1>2, <2>1, <2>3, <2>4, <2>5 DEF ClaimStep
<1>3. CASE TurnStep
  BY <1>3, <1>a DEF TurnStep, CreateRun, Prepare, FailTurn, StartTurn, EndTurn
<1>4. CASE OutcomeStep
  BY <1>4, <1>a DEF OutcomeStep, WriteOutcome, WriteOutcomeFails, Settle, Rewrite, Reclaim, Record
<1>5. CASE CountStep
  BY <1>5, <1>a DEF CountStep, Count, CountThrows, Disable, DisableFails
<1>6. CASE EndStep
  <2>1. Claiming' = Claiming
    BY <1>6 DEF EndStep, EndRun, OtherEnds, Claiming
  <2>2. CASE EndRun
    <3>1. CASE watch \in {"racing", "grace"}
      <4>1. active' = active - 1 /\ others' = others /\ HoldsSlot /\ ~HoldsSlot'
        BY <2>2, <3>1 DEF EndRun, HoldsSlot
      <4> QED
        BY <1>0, <2>1, <4>1 DEF SlotsBalance
    <3>2. CASE watch \notin {"racing", "grace"}
      BY <2>2, <3>2, <1>a DEF EndRun
    <3> QED
      BY <3>1, <3>2
  <2>3. CASE OtherEnds
    <3>1. active' = active - 1 /\ others' = others - 1 /\ (HoldsSlot' <=> HoldsSlot)
      BY <2>3 DEF OtherEnds, HoldsSlot
    <3> QED
      BY <1>0, <2>1, <3>1 DEF SlotsBalance
  <2> QED
    BY <1>6, <2>2, <2>3 DEF EndStep
<1>7. CASE WatchStep
  <2>1. Claiming' = Claiming /\ others' = others
    BY <1>7 DEF WatchStep, Timeout, AbortEnds, GraceEnds, Claiming
  <2>2. \/ active' = active /\ (HoldsSlot' <=> HoldsSlot)
        \/ active' = active - 1 /\ HoldsSlot /\ ~HoldsSlot'
    BY <1>7 DEF WatchStep, Timeout, AbortEnds, GraceEnds, HoldsSlot
  <2> QED
    BY <1>0, <2>1, <2>2 DEF SlotsBalance
<1>8. CASE OwnerStep
  BY <1>8, <1>a, OwnerLeavesRun
<1>9. CASE ProcessStep
  <2>1. CASE Stop \/ CloseRuntimes \/ Drain \/ Restart
    BY <2>1, <1>a DEF Stop, CloseRuntimes, Drain, Restart
  <2>2. CASE Crash
    <3>1. Claiming' = {} /\ Cardinality(Claiming') = 0
      BY <2>2, FS_EmptySet DEF Crash, Claiming
    <3>2. active' = 0 /\ others' = 0 /\ ~HoldsSlot'
      BY <2>2 DEF Crash, HoldsSlot
    <3> QED
      BY <3>1, <3>2 DEF SlotsBalance
  <2> QED
    BY <1>9, <2>1, <2>2 DEF ProcessStep
<1>10. CASE Clock
  BY <1>10, <1>a DEF Clock
<1>11. CASE UNCHANGED vars
  BY <1>11, <1>a DEF vars
<1> QED
  BY <1>1, <1>2, <1>3, <1>4, <1>5, <1>6, <1>7, <1>8, <1>9, <1>10, <1>11, StepCases

\* With the balance, the shape of the state is complete.
LEMMA TypeKept ==
  ASSUME TypeOK, SlotsBalance, [Next]_vars
  PROVE  TypeOK'
<1>1. Flags' /\ Numbers' /\ Places'
  BY FlagsKept, NumbersKept, PlacesKept
<1>2. active' \in Nat
  <2>1. Claiming' \subseteq Ticks
    BY DEF Claiming
  <2>2. Cardinality(Claiming') \in Nat
    BY <2>1, ScheduleAssumption, FS_Subset, FS_CardinalityType
  <2>3. others' \in Nat
    BY <1>1, ScheduleAssumption DEF Numbers
  <2> QED
    BY <2>2, <2>3, BalanceKept DEF SlotsBalance
<1> QED
  BY <1>1, <1>2 DEF TypeOK, Flags, Numbers, Places

-----------------------------------------------------------------------------
(* The theorems                                                            *)

\* The first state satisfies the invariant.
LEMMA JobsStart ==
  ASSUME Init
  PROVE  JobInv
<1> USE ScheduleAssumption DEF Init
<1>1. TypeOK
  <2>1. Flags
    BY DEF Flags
  <2>2. Places
    <3>1. tick \in [Ticks -> {"idle", "listing", "claiming", "pausing"}]
      OBVIOUS
    <3>2. next \in [Ticks -> 0..1]
      OBVIOUS
    <3> QED
      BY <3>1, <3>2 DEF Places
  <2>3. Numbers /\ active \in Nat
    BY DEF Numbers, Cutoff
  <2> QED
    BY <2>1, <2>2, <2>3 DEF TypeOK, Flags, Numbers, Places
<1>2. SlotsBalance
  <2>1. Claiming = {} /\ Cardinality(Claiming) = 0
    BY FS_EmptySet DEF Claiming
  <2> QED
    BY <2>1 DEF SlotsBalance, HoldsSlot
<1>3. NoTurnAfterAbort /\ FireInv /\ OutInv /\ AgeInv /\ SweptWasGivenUp /\ RunsAreRecorded
  BY DEF NoTurnAfterAbort, FireInv, OutInv, AgeInv, SweptWasGivenUp, RunsAreRecorded
<1>4. PoisonStops
  BY DEF PoisonStops
<1> QED
  BY <1>1, <1>2, <1>3, <1>4 DEF JobInv

\* Every step keeps it.
LEMMA JobsStep ==
  ASSUME JobInv, [Next]_vars
  PROVE  JobInv'
<1> USE DEF JobInv
<1>1. TypeOK' /\ SlotsBalance' /\ NoTurnAfterAbort'
  BY TypeKept, BalanceKept, AbortKept
<1>2. FireInv' /\ OutInv' /\ AgeInv'
  BY FireKept, OutcomeKept, AgeKept
<1>3. SweptWasGivenUp' /\ PoisonStops' /\ RunsAreRecorded'
  BY SweptKept, PoisonKept, RecordKept
<1> QED
  BY <1>1, <1>2, <1>3

\* The scheduler worker keeps its slots, its outcomes and its deadlines in order.
THEOREM JobsCorrect == Spec => []JobInv
<1> QED
  BY JobsStart, JobsStep, PTL DEF Spec

\* No slot is leaked or taken twice, and no turn outlives its abort.
THEOREM JobsInvariantHolds == Spec => []JobsInvariant
<1>1. JobInv => JobsInvariant
  BY DEF JobInv, JobsInvariant
<1> QED
  BY <1>1, JobsCorrect, PTL

\* In one period the job is claimed once.
THEOREM OncePerPeriodHolds == Spec => []OncePerPeriod
<1>1. JobInv => OncePerPeriod
  BY DEF JobInv, FireInv, OncePerPeriod
<1> QED
  BY <1>1, JobsCorrect, PTL

\* A run that is recorded as completed has a message that says so.
THEOREM CompletedRunIsWholeHolds == Spec => []CompletedRunIsWhole
<1>1. JobInv => CompletedRunIsWhole
  BY DEF JobInv, OutInv, CompletedRunIsWhole
<1> QED
  BY <1>1, JobsCorrect, PTL

\* The sweep fails no run in the time its watchdog leaves it: a swept run is over,
\* was given up by its watchdog, or waits for an abort that took a period or more.
THEOREM SweptWasGivenUpHolds == Spec => []SweptWasGivenUp
<1>1. JobInv => SweptWasGivenUp
  BY DEF JobInv
<1> QED
  BY <1>1, JobsCorrect, PTL

\* A poisoned job does not stay enabled.
THEOREM PoisonStopsHolds == Spec => []PoisonStops
<1>1. JobInv => PoisonStops
  BY DEF JobInv
<1> QED
  BY <1>1, JobsCorrect, PTL

\* A row stays without an outcome only when its run died with its process or could
\* not write it: no freed slot and no complete drain loses one.
THEOREM RunsAreRecordedHolds == Spec => []RunsAreRecorded
<1>1. JobInv => RunsAreRecorded
  BY DEF JobInv
<1> QED
  BY <1>1, JobsCorrect, PTL
=============================================================================
