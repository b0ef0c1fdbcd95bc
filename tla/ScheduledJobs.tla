--------------------------- MODULE ScheduledJobs ---------------------------
(***************************************************************************)
(* The scheduler worker: ticks that claim a due job, the slots that bound  *)
(* the runs of a process, one run of the job with its watchdog, message    *)
(* and run row, the poison counter, the sweep of orphaned rows, crashes    *)
(* and the shutdown.                                                       *)
(*                                                                         *)
(* Time is relative: one Clock step is one period of the job, `due` says   *)
(* how far the next run is away, `age` how old the pending row is.  One    *)
(* run is modelled step by step; the other runs of the job in this process *)
(* hold a slot, and other replicas claim and run the job too.  What those  *)
(* runs do to the job is modelled: they claim it, count their outcome, and *)
(* disable it in a later step.                                             *)
(***************************************************************************)
EXTENDS Naturals, FiniteSets

CONSTANTS
  Ticks,        \* ticks that can overlap in the process
  MaxJobs,      \* maxConcurrentJobs
  MaxOthers,    \* bound: runs of the job beside the modelled one
  MaxFailures,  \* maxConsecutiveFailures
  JobTimeout,   \* jobTimeoutMs, in periods
  SettleGrace,  \* abortSettleGraceMs
  SweepBuffer   \* STALE_RUN_SWEEP_BUFFER_MS

ASSUME ScheduleAssumption ==
  /\ IsFiniteSet(Ticks)
  /\ MaxJobs \in Nat \ {0} /\ MaxFailures \in Nat \ {0}
  /\ {MaxOthers, JobTimeout, SettleGrace, SweepBuffer} \subseteq Nat

VARIABLES
  enabled,   \* scheduled_jobs.enabled
  due,       \* next_run_at: periods until the job is due
  stale,     \* owner_security_version is not the owner's current one
  fails,     \* consecutive_failures, up to MaxFailures
  elsewhere, \* another run has reached the limit and is about to disable the job
  active,    \* SchedulerWorker.activeCount
  phase,     \* the process: up, stopping, closed, off (drained) or dead
  tick,      \* per tick: where it is
  next,      \* per tick: the next_run_at it computed
  others,    \* other runs of the job that hold a slot
  at,        \* where executeJob of the modelled run is
  watch,     \* where executeJobWithTimeout of that run is
  waited,    \* periods since the grace of the watchdog began
  row,       \* status of its scheduled_job_runs row
  age,       \* age of that row while it is pending
  orphan,    \* history: the pending row lost its run, or the write of its outcome
  msg,       \* status of its assistant message
  out,       \* the outcome it has decided on
  outdated,  \* its ownerSecurityVersion is not the current one
  counts,    \* countsTowardDisable
  fired,     \* history: the claims of this period
  excused,   \* history: why a poisoned job may be enabled
  expired,   \* history: the watchdog fired before the transcript settled
  ignored,   \* history: an abort did not end the turn
  slow       \* history: abortSession of the watchdog took a period or more

jobVars == <<enabled, due, stale, fails, elsewhere, excused>>
workerVars == <<active, phase, others>>
tickVars == <<tick, next, fired>>
watchVars == <<watch, waited, ignored, slow>>
rowVars == <<row, age, orphan>>
turnVars == <<msg, out, outdated, counts, expired>>
vars == <<jobVars, workerVars, tickVars, at, watchVars, rowVars, turnVars>>

CutoffWithoutGrace == JobTimeout
Cutoff == JobTimeout + SettleGrace + SweepBuffer

Init ==
  /\ enabled = TRUE /\ due = 0 /\ stale = FALSE /\ fails = 0
  /\ elsewhere = FALSE /\ excused = FALSE
  /\ active = 0 /\ phase = "up" /\ others = 0
  /\ tick = [k \in Ticks |-> "idle"] /\ next = [k \in Ticks |-> 0] /\ fired = "no"
  /\ at = "none" /\ watch = "gone" /\ waited = 0 /\ ignored = FALSE /\ slow = FALSE
  /\ row = "none" /\ age = 0 /\ orphan = FALSE
  /\ msg = "none" /\ out = "none" /\ outdated = FALSE /\ counts = TRUE /\ expired = FALSE

\* A finished run leaves the model; a row that is still pending stays.
Forgotten ==
  /\ row' = (IF row = "pending" THEN row ELSE "none") /\ age' = age
  /\ msg' = "none" /\ out' = "none" /\ outdated' = FALSE /\ counts' = TRUE /\ expired' = FALSE
  /\ waited' = 0 /\ ignored' = FALSE /\ slow' = FALSE

\* Bound: the counter stops at the threshold.
OneMore == IF fails < MaxFailures THEN fails + 1 ELSE fails
Alive == phase \in {"up", "stopping", "closed"}
HoldsSlot == watch \in {"racing", "aborting", "grace"}
TimedOut == watch \in {"aborting", "grace", "gone"}
Claiming == {k \in Ticks : tick[k] = "claiming"}
\* The modelled run is over and its row needs no sweep.
Free == at = "none" /\ watch = "gone" /\ row # "pending"
\* Bound: a tick goes on only when the model can hold one more run.
Room == Cardinality(Claiming) + others < MaxOthers + (IF Free THEN 1 ELSE 0)
\* The promises in inFlight: jobs, and ticks with the slots of their jobs.
InFlight == at # "none" \/ HoldsSlot \/ others > 0 \/ \E k \in Ticks : tick[k] # "idle"
-----------------------------------------------------------------------------
(* Ticks                                                                   *)

\* sweepStaleJobRuns: pending rows older than the cutoff are failed.
Sweeps == IF row = "pending" /\ age > Cutoff
            THEN /\ row' = (IF at = "none" THEN "none" ELSE "swept")
                 /\ age' = 0 /\ orphan' = FALSE
            ELSE UNCHANGED rowVars
\* A tick starts, sweeps, and lists jobs when it sees a free slot.
StartTick(k) ==
  /\ phase = "up" /\ tick[k] = "idle"
  /\ Sweeps
  /\ tick' = IF active < MaxJobs THEN [tick EXCEPT ![k] = "listing"] ELSE tick
  /\ UNCHANGED <<jobVars, workerVars, next, fired, at, watchVars, turnVars>>
\* The sweep throws; the tick goes on.
StartTickUnswept(k) ==
  /\ phase = "up" /\ tick[k] = "idle" /\ active < MaxJobs
  /\ tick' = [tick EXCEPT ![k] = "listing"]
  /\ UNCHANGED <<jobVars, workerVars, next, fired, at, watchVars, rowVars, turnVars>>

ReserveUnchecked(k) ==
  /\ tick[k] = "listing" /\ Alive
  /\ enabled /\ due = 0 /\ phase = "up" /\ Room
  /\ active' = active + 1
  /\ next' = [next EXCEPT ![k] = 1]
  /\ tick' = [tick EXCEPT ![k] = "claiming"]
  /\ UNCHANGED <<jobVars, phase, others, fired, at, watchVars, rowVars, turnVars>>
\* The answer of listDueJobs, and the reservation of a slot with no await
\* between the check and the increment.
Reserve(k) ==
  /\ tick[k] = "listing" /\ Alive
  /\ enabled /\ due = 0 /\ phase = "up" /\ active < MaxJobs /\ Room
  /\ active' = active + 1
  /\ next' = [next EXCEPT ![k] = 1]
  /\ tick' = [tick EXCEPT ![k] = "claiming"]
  /\ UNCHANGED <<jobVars, phase, others, fired, at, watchVars, rowVars, turnVars>>
\* Nothing is due, the query fails, or the worker stops or is full by now.
GiveUp(k) ==
  /\ tick[k] = "listing" /\ Alive
  /\ tick' = [tick EXCEPT ![k] = "idle"]
  /\ UNCHANGED <<jobVars, workerVars, next, fired, at, watchVars, rowVars, turnVars>>

ClaimableAnyTime == enabled /\ ~stale
Claimable == enabled /\ due = 0 /\ ~stale

\* One claim more in this period; after a late one the count means nothing.
ClaimedAgain == CASE fired = "no" -> "once" [] fired = "late" -> "late" [] OTHER -> "twice"

\* The atomic UPDATE of claimJob, for the tick k.
TakeDueTime(k) ==
  /\ due' = next[k]
  /\ fired' = IF next[k] = 0 THEN "late" ELSE ClaimedAgain

\* The claim wins and executeJobWithTimeout starts.
Claim(k) ==
  /\ tick[k] = "claiming" /\ Alive /\ Claimable /\ Free
  /\ TakeDueTime(k)
  /\ tick' = [tick EXCEPT ![k] = "idle"] /\ next' = [next EXCEPT ![k] = 0]
  /\ at' = "claimed" /\ watch' = "racing"
  /\ UNCHANGED <<enabled, stale, fails, elsewhere, excused, workerVars, waited, ignored, slow, rowVars,
                 turnVars>>
ClaimOther(k) ==
  /\ tick[k] = "claiming" /\ Alive /\ Claimable /\ others < MaxOthers
  /\ TakeDueTime(k)
  /\ tick' = [tick EXCEPT ![k] = "idle"] /\ next' = [next EXCEPT ![k] = 0]
  /\ others' = others + 1
  /\ UNCHANGED <<enabled, stale, fails, elsewhere, excused, active, phase, at, watchVars,
                 rowVars, turnVars>>
\* The query throws: the slot is given back, whether or not the claim took
\* effect.  A claim that did take effect has no run.
ClaimThrows(k) ==
  /\ tick[k] = "claiming" /\ Alive
  /\ \/ Claimable /\ TakeDueTime(k)
     \/ UNCHANGED <<due, fired>>
  /\ active' = active - 1
  /\ tick' = [tick EXCEPT ![k] = "idle"] /\ next' = [next EXCEPT ![k] = 0]
  /\ UNCHANGED <<enabled, stale, fails, elsewhere, excused, phase, others, at, watchVars,
                 rowVars, turnVars>>
ClaimRefused(k) ==
  /\ tick[k] = "claiming" /\ Alive /\ ~Claimable
  /\ active' = active - 1
  /\ tick' = [tick EXCEPT ![k] = "pausing"] /\ next' = [next EXCEPT ![k] = 0]
  /\ UNCHANGED <<jobVars, phase, others, fired, at, watchVars, rowVars, turnVars>>
\* pauseJobForSecurityChange: only a job that is enabled and still stale.
Pauses == IF enabled /\ stale
            THEN enabled' = FALSE /\ due' = 0 /\ excused' = FALSE
            ELSE UNCHANGED <<enabled, due, excused>>
PauseJob(k) ==
  /\ tick[k] = "pausing" /\ Alive
  /\ Pauses \/ UNCHANGED <<enabled, due, excused>>
  /\ tick' = [tick EXCEPT ![k] = "idle"]
  /\ UNCHANGED <<stale, fails, elsewhere, workerVars, next, fired, at, watchVars, rowVars, turnVars>>

-----------------------------------------------------------------------------
(* executeJob of the modelled run                                          *)

Go(from, to) == Alive /\ at = from /\ at' = to
runOnly == <<jobVars, workerVars, tickVars, watchVars>>

\* The session and the run row are created, or one of the inserts fails, which
\* the row may survive.
CreateRun ==
  /\ \/ Go("claimed", "preparing") /\ row' = "pending" /\ age' = 0 /\ out' = out
     \/ Go("claimed", "closing") /\ out' = "failed" /\ age' = 0 /\ row' \in {"none", "pending"}
  /\ orphan' = FALSE
  /\ UNCHANGED <<runOnly, msg, outdated, counts, expired>>

\* The runtime is resolved, the prompt passes the PII gate, the messages are
\* saved.  A failure before the assistant message has no transcript.
Prepare ==
  /\ \/ Go("preparing", "starting") /\ msg' = "pending" /\ UNCHANGED <<out, counts>>
     \/ Go("preparing", "closing") /\ out' = "failed" /\ counts' \in BOOLEAN /\ msg' = msg
  /\ UNCHANGED <<runOnly, rowVars, outdated, expired>>

\* createSession and toolContexts.create fail, or admitTurn refuses: a stale
\* run pauses its job, and a timed-out or shut-down one just ends.
FailTurn ==
  /\ Go("starting", "failing")
  /\ \/ outdated /\ counts' = FALSE /\ Pauses
     \/ counts' \in {counts, ~outdated} /\ UNCHANGED <<enabled, due, excused>>
  /\ outdated' = FALSE
  /\ UNCHANGED <<stale, fails, elsewhere, workerVars, tickVars, watchVars, rowVars, msg, out, expired>>
\* The last admitTurn passes and runMessageAGUI starts in the same step.
StartTurn ==
  /\ Go("starting", "streaming")
  /\ ~outdated /\ watch = "racing" /\ phase \in {"up", "stopping"}
  /\ UNCHANGED <<runOnly, rowVars, turnVars>>
\* The stream ends: with a result, or with an error or an interruption.
EndTurn ==
  /\ Go("streaming", "succeeding") \/ Go("streaming", "failing")
  /\ ignored' = FALSE
  /\ UNCHANGED <<jobVars, workerVars, tickVars, watch, waited, slow, rowVars, turnVars>>

\* writeFinal, up to the first status write.
Decide == IF TimedOut \/ at = "failing" THEN "failed" ELSE "completed"
WriteOutcome ==
  /\ at \in {"succeeding", "failing"}
  /\ Go(at, "rich")
  /\ out' = Decide /\ msg' = out'
  /\ UNCHANGED <<runOnly, rowVars, outdated, counts, expired>>
\* That write fails, updates no row or loses its answer: one more try follows,
\* which never says completed.
WriteOutcomeFails ==
  /\ at \in {"succeeding", "failing"}
  /\ Go(at, "closing")
  /\ out' = "failed" /\ msg' \in {msg, Decide, "failed"}
  /\ UNCHANGED <<runOnly, rowVars, outdated, counts, expired>>

SettleForGood ==
  /\ Go("rich", "closing")
  /\ out' = out /\ expired' = TimedOut
  /\ UNCHANGED <<runOnly, rowVars, msg, outdated, counts>>
\* After the rich parts: a timeout in the meantime fails the turn after all.
Settle ==
  /\ Go("rich", IF TimedOut /\ out = "completed" THEN "rewriting" ELSE "closing")
  /\ out' = IF TimedOut THEN "failed" ELSE out
  /\ expired' = TimedOut
  /\ UNCHANGED <<runOnly, rowVars, msg, outdated, counts>>
\* The second status write, and the try after its failure.
Rewrite ==
  /\ Go("rewriting", "closing")
  /\ msg' \in {msg, "failed"}
  /\ UNCHANGED <<runOnly, rowVars, out, outdated, counts, expired>>

\* reclaimScheduledSession: both of its calls are best effort.
Reclaim ==
  /\ Go("closing", "recording")
  /\ UNCHANGED <<runOnly, rowVars, turnVars>>

\* completeJobRun, whatever the row says now, or its failure; then the counter
\* is due only for a success or a failure that is the job's own.
Record ==
  /\ Go("recording", IF out = "completed" \/ counts THEN "counting" ELSE "settled")
  /\ \/ row # "none" /\ row' = out /\ age' = 0 /\ orphan' = FALSE
     \/ UNCHANGED <<row, age>> /\ orphan' = (row = "pending")
  /\ UNCHANGED <<runOnly, turnVars>>
CountedFails == IF out = "completed" THEN 0 ELSE OneMore
CountPastThreshold ==
  /\ at = "counting" /\ Alive
  /\ fails' = CountedFails
  /\ at' = IF fails >= MaxFailures THEN "disabling" ELSE "settled"
  /\ excused' = (excused /\ fails' >= MaxFailures)
  /\ UNCHANGED <<enabled, due, stale, elsewhere, workerVars, tickVars, watchVars, rowVars, turnVars>>
\* recordJobRunOutcome: reset, or increment and compare with the threshold.
Count ==
  /\ at = "counting" /\ Alive
  /\ fails' = CountedFails
  /\ at' = IF fails' >= MaxFailures THEN "disabling" ELSE "settled"
  /\ excused' = (excused /\ fails' >= MaxFailures)
  /\ UNCHANGED <<enabled, due, stale, elsewhere, workerVars, tickVars, watchVars, rowVars, turnVars>>
\* Both writes may fail, or lose their answer, and are then only logged.
CountThrows ==
  /\ Go("counting", "settled")
  /\ fails' \in {fails, CountedFails} /\ excused' = (enabled /\ fails' >= MaxFailures)
  /\ UNCHANGED <<enabled, due, stale, elsewhere, workerVars, tickVars, watchVars, rowVars, turnVars>>
\* disableJob has no condition.
Disable ==
  /\ Go("disabling", "settled")
  /\ enabled' = FALSE /\ due' = 0 /\ excused' = FALSE
  /\ UNCHANGED <<stale, fails, elsewhere, workerVars, tickVars, watchVars, rowVars, turnVars>>
DisableFails ==
  /\ Go("disabling", "settled")
  /\ excused' = (enabled /\ fails >= MaxFailures)
  /\ UNCHANGED <<enabled, due, stale, fails, elsewhere, workerVars, tickVars, watchVars, rowVars, turnVars>>

\* The promise of executeJob settles.  The wrapper ends with it and frees the
\* slot, unless it still waits for its abort.
EndRun ==
  /\ Go("settled", "none")
  /\ IF watch \in {"racing", "grace"}
       THEN watch' = "gone" /\ active' = active - 1
       ELSE UNCHANGED <<watch, active>>
  /\ Forgotten
  /\ UNCHANGED <<jobVars, phase, others, tickVars, orphan>>

\* Another run ends, or its watchdog frees its slot.
OtherEnds ==
  /\ others > 0 /\ Alive
  /\ others' = others - 1 /\ active' = active - 1
  /\ UNCHANGED <<jobVars, phase, tickVars, at, watchVars, rowVars, turnVars>>

\* A tick of another replica claims the job.
ClaimElsewhere ==
  /\ Claimable
  /\ due' = 1 /\ fired' = ClaimedAgain
  /\ UNCHANGED <<enabled, stale, fails, elsewhere, excused, workerVars, tick, next, at, watchVars, rowVars,
                 turnVars>>
\* Another run of the job, here or there, reports its outcome to the counter.
\* Bound: one other run at a time is between this step and its next one.
ReportElsewhere ==
  \/ fails' = 0 /\ excused' = FALSE /\ elsewhere' = elsewhere
  \/ /\ fails' = OneMore /\ excused' = excused
     /\ \/ fails' < MaxFailures /\ elsewhere' = elsewhere
        \/ fails' = MaxFailures /\ ~elsewhere /\ elsewhere' = TRUE
\* That write fails or loses its answer: the run stops there.
ReportElsewhereFails ==
  /\ fails' \in {fails, 0, OneMore}
  /\ excused' = (enabled /\ fails' >= MaxFailures) /\ elsewhere' = elsewhere
CountElsewhere ==
  /\ ReportElsewhere \/ ReportElsewhereFails
  /\ UNCHANGED <<enabled, due, stale, workerVars, tickVars, at, watchVars, rowVars, turnVars>>
\* The other run disables the job, as Disable, or fails to, or dies before.
DisableElsewhere ==
  /\ elsewhere /\ elsewhere' = FALSE
  /\ \/ enabled' = FALSE /\ due' = 0 /\ excused' = FALSE
     \/ UNCHANGED <<enabled, due>> /\ excused' = (enabled /\ fails >= MaxFailures)
  /\ UNCHANGED <<stale, fails, workerVars, tickVars, at, watchVars, rowVars, turnVars>>

-----------------------------------------------------------------------------
(* executeJobWithTimeout of the modelled run                               *)

watchOnly == <<jobVars, tickVars, rowVars, turnVars, phase, others>>

Timeout ==
  /\ Alive /\ watch = "racing" /\ at # "none"
  /\ watch' = "aborting"
  /\ UNCHANGED <<watchOnly, active, at, waited, ignored, slow>>

\* abortSession returns or throws.  It ends a turn that runs; one that has not
\* started yet, or ignores it, goes on.
AbortEnds ==
  /\ Alive /\ watch = "aborting"
  /\ IF at = "none"
       THEN watch' = "gone" /\ active' = active - 1 /\ UNCHANGED <<at, ignored>>
       ELSE /\ watch' = "grace" /\ active' = active
            /\ \/ at' = (IF at = "streaming" THEN "failing" ELSE at) /\ ignored' = ignored
               \/ at = "streaming" /\ at' = at /\ ignored' = TRUE
  /\ UNCHANGED <<watchOnly, waited, slow>>

\* The run did not settle in the grace: the slot is freed under it.
GraceEnds ==
  /\ Alive /\ watch = "grace" /\ waited >= SettleGrace
  /\ watch' = "gone" /\ active' = active - 1
  /\ waited' = 0 /\ slow' = FALSE
  /\ UNCHANGED <<watchOnly, at, ignored>>

-----------------------------------------------------------------------------
(* The owner, the process and time                                         *)

\* updateScheduledJob: it confirms the job for the version of the session that
\* saves, which can be old by now, and stores a next_run_at computed before.
Save ==
  /\ \E on \in BOOLEAN, old \in {FALSE, stale}, when \in {0, 1} :
       /\ enabled' = on /\ stale' = old
       /\ due' = IF on THEN when ELSE 0
       /\ fired' = IF on /\ when = 0 THEN "late" ELSE fired
       /\ excused' = (on /\ fails >= MaxFailures)
  /\ UNCHANGED <<fails, elsewhere, workerVars, tick, next, at, watchVars, rowVars, turnVars>>

\* A security change of the owner; a disable or a removal also suspends jobs.
SecurityChange ==
  /\ stale' = TRUE /\ outdated' = (at \in {"claimed", "preparing", "starting"})
  /\ \/ UNCHANGED <<enabled, due, excused>>
     \/ enabled' = FALSE /\ due' = 0 /\ excused' = FALSE
  /\ UNCHANGED <<fails, elsewhere, workerVars, tickVars, at, watchVars, rowVars, msg, out, counts,
                 expired>>

\* SchedulerWorker.stop(): no tick and no claim starts after it.
Stop ==
  /\ phase = "up" /\ phase' = "stopping"
  /\ UNCHANGED <<jobVars, active, others, tickVars, at, watchVars, rowVars, turnVars>>
\* refuseNewTurns, and runtimeAdapter.close(), which aborts what runs.
CloseRuntimes ==
  /\ phase = "stopping" /\ phase' = "closed"
  /\ \/ at' = (IF at = "streaming" THEN "failing" ELSE at) /\ ignored' = ignored
     \/ at = "streaming" /\ at' = at /\ ignored' = TRUE
  /\ UNCHANGED <<jobVars, active, others, tickVars, watch, waited, slow, rowVars,
                 turnVars>>
DrainSlots ==
  /\ phase = "closed" /\ active = 0 /\ \A k \in Ticks : tick[k] = "idle"
  /\ phase' = "off"
  /\ UNCHANGED <<jobVars, active, others, tickVars, at, watchVars, rowVars, turnVars>>
\* drain() returns true and the process ends.
Drain ==
  /\ phase = "closed" /\ ~InFlight
  /\ phase' = "off"
  /\ UNCHANGED <<jobVars, active, others, tickVars, at, watchVars, rowVars, turnVars>>
\* The process dies, or its drain budget is over: everything in memory is lost.
Crash ==
  /\ Alive /\ phase' = "dead" /\ active' = 0 /\ others' = 0
  /\ tick' = [k \in Ticks |-> "idle"] /\ next' = [k \in Ticks |-> 0]
  /\ at' = "none" /\ watch' = "gone"
  /\ Forgotten /\ orphan' = (row = "pending")
  /\ excused' = (enabled /\ fails >= MaxFailures)
  /\ UNCHANGED <<enabled, due, stale, fails, elsewhere, fired>>
Restart ==
  /\ phase \in {"off", "dead"} /\ phase' = "up"
  /\ UNCHANGED <<jobVars, active, others, tickVars, at, watchVars, rowVars, turnVars>>

\* A timer of the watchdog is not overtaken by time.
TimerDue ==
  \/ watch = "racing" /\ row = "pending" /\ age >= JobTimeout
  \/ watch = "grace" /\ waited >= SettleGrace
Clock ==
  /\ ~TimerDue
  /\ due' = IF due > 0 THEN due - 1 ELSE 0
  /\ next' = [k \in Ticks |-> IF next[k] > 0 THEN next[k] - 1 ELSE 0]
  /\ fired' = "no"
  /\ age' = IF row = "pending" /\ age <= Cutoff THEN age + 1 ELSE age
  /\ waited' = IF watch = "grace" THEN waited + 1 ELSE waited
  /\ slow' = (slow \/ (watch = "aborting" /\ at # "none"))
  /\ UNCHANGED <<enabled, stale, fails, elsewhere, excused, workerVars, tick, at, watch, ignored, row,
                 orphan, turnVars>>

-----------------------------------------------------------------------------
RunStep ==
  \/ CreateRun \/ Prepare \/ FailTurn \/ StartTurn \/ EndTurn \/ WriteOutcome
  \/ WriteOutcomeFails \/ Settle \/ Rewrite \/ Reclaim \/ Record \/ Count \/ CountThrows
  \/ Disable \/ DisableFails \/ EndRun \/ OtherEnds

TickStep(k) ==
  \/ StartTick(k) \/ StartTickUnswept(k) \/ Reserve(k) \/ GiveUp(k)
  \/ Claim(k) \/ ClaimOther(k) \/ ClaimThrows(k) \/ ClaimRefused(k) \/ PauseJob(k)

Next ==
  \/ \E k \in Ticks : TickStep(k)
  \/ RunStep
  \/ Timeout \/ AbortEnds \/ GraceEnds
  \/ ClaimElsewhere \/ CountElsewhere \/ DisableElsewhere \/ Save \/ SecurityChange
  \/ Stop \/ CloseRuntimes \/ Drain \/ Crash \/ Restart
  \/ Clock

Spec == Init /\ [][Next]_vars

-----------------------------------------------------------------------------
(* Properties                                                              *)

TypeOK ==
  /\ {enabled, stale, elsewhere, excused, orphan} \subseteq BOOLEAN
  /\ {outdated, counts, expired, ignored, slow} \subseteq BOOLEAN
  /\ due \in 0..1 /\ fails \in 0..MaxFailures
  /\ active \in Nat
  /\ phase \in {"up", "stopping", "closed", "off", "dead"}
  /\ tick \in [Ticks -> {"idle", "listing", "claiming", "pausing"}]
  /\ next \in [Ticks -> 0..1] /\ fired \in {"no", "once", "late", "twice"}
  /\ others \in 0..MaxOthers
  /\ at \in {"none", "claimed", "preparing", "starting", "streaming", "succeeding", "failing",
             "rich", "rewriting", "closing", "recording", "counting", "disabling", "settled"}
  /\ watch \in {"racing", "aborting", "grace", "gone"} /\ waited \in 0..SettleGrace
  /\ row \in {"none", "pending", "completed", "failed", "swept"} /\ age \in 0..Cutoff + 1
  /\ msg \in {"none", "pending", "completed", "failed"} /\ out \in {"none", "completed", "failed"}

\* The counter of the slots is the number of claims and runs that hold one, and
\* overlapping ticks do not take it over the limit: no slot is leaked by a claim
\* that is lost, an abort that is late or a run that outlives its grace.
SlotsBalance ==
  /\ active = Cardinality(Claiming) + others + (IF HoldsSlot THEN 1 ELSE 0)
  /\ active <= MaxJobs

\* No turn runs on after an abort that could not reach it, because it had not
\* started: neither the one of the watchdog nor the one of the shutdown.
NoTurnAfterAbort ==
  at = "streaming" /\ (watch \in {"grace", "gone"} \/ phase = "closed") => ignored

\* The state has its shape, slots are neither leaked nor taken twice, and no turn
\* outlives its abort.
JobsInvariant == TypeOK /\ SlotsBalance /\ NoTurnAfterAbort

\* Two ticks that listed the same job do not both run it: in one period the job
\* is claimed once, unless a next_run_at was stored that an earlier period
\* computed.
OncePerPeriod == fired # "twice"

\* A run is recorded as completed only when its message says so too and its
\* watchdog had not fired before the transcript settled.
CompletedRunIsWhole == row = "completed" => msg = "completed" /\ ~expired

\* The sweep does not fail a run in the time its watchdog leaves it: such a run
\* is over, or its watchdog has given it up after the grace, or it waits for an
\* abort that took as long as a period.
SweptWasGivenUp == row = "swept" /\ at # "none" => watch = "gone" \/ slow

\* "Live runs are never swept": the sweep fails no row whose executeJob goes on.
\* False for a run that outlives its grace or its abort.
LiveRunsAreNotSwept == row = "swept" => at = "none"

\* A job with too many failures in a row does not stay enabled, unless its owner
\* saved it again or a write that counts or disables was lost: the run that
\* reached the limit, this one or another, is about to disable it.
PoisonStops == enabled /\ fails >= MaxFailures => at = "disabling" \/ elsewhere \/ excused

\* A pending row has a run that goes on and still writes its outcome, unless that
\* run died with its process or its write failed: a watchdog that gives a run up,
\* a slot that is freed under it, or a shutdown that reports a complete drain
\* leaves no row without its outcome.
RunsAreRecorded ==
  row = "pending" /\ ~orphan =>
    Alive /\ at \notin {"none", "claimed", "counting", "disabling", "settled"}
=============================================================================
