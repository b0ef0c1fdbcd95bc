----------------------------- MODULE UploadScan -----------------------------
(***************************************************************************)
(* The PII scan of an uploaded file: the upload request that scans it at   *)
(* once or queues a job, the attempts of the job, whose claims can expire  *)
(* while they run, the sweep of stale claims, and the recovery of failed   *)
(* jobs.  An attempt records its decision on the scan run before it        *)
(* applies it, and a block deletes the bytes of the file.                  *)
(*                                                                         *)
(* One upload.  What a scan finds, and the policy in force when it runs,   *)
(* are one choice: the file passes or it is blocked.  The verdict          *)
(* "transformed" is a passing one: the same writes, and the file is        *)
(* readable.  A write that fails may have taken effect.                    *)
(***************************************************************************)
EXTENDS Naturals

CONSTANTS
  Attempts,     \* bound: executions and recoveries under way at one time
  MaxAttempts,  \* pii_scan_jobs.max_attempts
  MaxFaults,    \* bound: failed writes, lost answers and crashes
  None

ASSUME ScanAssumption ==
  None \notin Attempts \cup {"pass", "block"} /\ MaxAttempts \in Nat \ {0} /\ MaxFaults \in Nat

VARIABLES
  up,        \* where the upload request is
  art,       \* the row of artifacts: its status and its PII verdict
  bytes,     \* the stored object
  run,       \* the row of pii_scan_runs: its status and its pending decision
  job,       \* the row of pii_scan_jobs; stale: its claim is older than the cutoff
  at,        \* per attempt: where it is
  role,      \* per attempt: an execution, or a recovery that acknowledges nothing
  verdict,   \* per attempt: the decision that it applies
  lock,      \* the recovery that holds the row of the scan run
  faults,
  blocked,   \* history: a block was decided
  disputed   \* history: the request closed a scan whose job exists, or failed to close one

attemptVars == <<at, role, verdict>>
historyVars == <<blocked, disputed>>
vars == <<up, art, bytes, run, job, attemptVars, lock, faults, historyVars>>

Init ==
  /\ up = "received"
  /\ art = [status |-> "pending", pii |-> "none"]
  /\ bytes = "stored"
  /\ run = [status |-> "none", decision |-> None]
  /\ job = [status |-> "none", attempts |-> 0, stale |-> FALSE]
  /\ at = [w \in Attempts |-> "idle"]
  /\ role = [w \in Attempts |-> "job"]
  /\ verdict = [w \in Attempts |-> None]
  /\ lock = None
  /\ faults = 0
  /\ blocked = FALSE /\ disputed = FALSE

-----------------------------------------------------------------------------
(* The rows                                                                *)

Verdicts == {"pass", "block"}

\* setPiiDetail: the verdict and the status of a pending upload change together.
WithVerdict(pii) ==
  [pii |-> pii,
   status |-> IF art.status = "pending" /\ pii = "scanned" THEN "ready"
              ELSE IF art.status = "pending" /\ pii \in {"blocked", "failed"} THEN "failed"
              ELSE art.status]

\* isArtifactPiiEligible
Eligible == art.status = "ready" /\ art.pii \notin {"pending", "blocked"}

RunOpen == run.status \in {"pending", "processing"}
Unlocked == lock = None
Closed(status) == [status |-> status, decision |-> None]

\* A write outside the recorded decision leaves the decision in place.
RunStatus(status) == [run EXCEPT !.status = status]

Fault == faults < MaxFaults /\ faults' = faults + 1

-----------------------------------------------------------------------------
(* The upload request                                                      *)

Up(from, to) == up = from /\ up' = to
Request(from, to) == Up(from, to) /\ UNCHANGED <<job, attemptVars, lock>>

\* One write of the request: it succeeds, or it fails with or without effect.
UpWrite(from, to, failed, Effect, Same) ==
  \/ Effect /\ Request(from, to) /\ UNCHANGED faults
  \/ (Effect \/ Same) /\ Request(from, failed) /\ Fault

\* The policy is off or leaves uploads out; a block, or a type that no scan reads, is
\* scanned at once; else the scan is queued.
Skip ==
  /\ Request("received", "admitting")
  /\ UNCHANGED <<art, bytes, run, faults, historyVars>>

ScanNow ==
  /\ UpWrite("received", "scanning", "left",
             run' = [status |-> "processing", decision |-> None], UNCHANGED run)
  /\ UNCHANGED <<art, bytes, historyVars>>

QueueScan ==
  /\ UpWrite("received", "stamping", "closingNoRun",
             run' = [status |-> "pending", decision |-> None], UNCHANGED run)
  /\ UNCHANGED <<art, bytes, historyVars>>

\* A policy that cannot be read: the file fails, and no run is created.
StopForInvalidPolicy ==
  /\ Request("received", "failingRejected")
  /\ UNCHANGED <<art, bytes, run, faults, historyVars>>

\* evaluateArtifactWithPolicy: an error that cannot recover deletes the bytes.
EvaluateNow ==
  /\ \/ Request("scanning", "passing") /\ UNCHANGED <<bytes, blocked>>
     \/ Request("scanning", "blocking") /\ bytes' \in {bytes, "purged"} /\ blocked' = TRUE
     \/ Request("scanning", "rejecting") /\ bytes' \in {bytes, "purged"} /\ UNCHANGED blocked
  /\ UNCHANGED <<art, run, faults, disputed>>

\* handleAllowDecision, then the upload becomes ready.
PassNow ==
  /\ \/ Unlocked /\ UpWrite("passing", "stampingPass", "rejecting", run' = RunStatus("completed"), UNCHANGED run)
        /\ UNCHANGED art
     \/ UpWrite("stampingPass", "admitting", "rejecting", art' = WithVerdict("scanned"), UNCHANGED art)
        /\ UNCHANGED run
     \/ UpWrite("admitting", "done", "left", art' = [art EXCEPT !.status = "ready"], UNCHANGED art)
        /\ UNCHANGED run
  /\ UNCHANGED <<bytes, historyVars>>

\* handleBlockDecision, after the bytes.
BlockNow ==
  /\ \/ Unlocked /\ UpWrite("blocking", "failing", "rejecting", run' = RunStatus("blocked"), UNCHANGED run)
        /\ UNCHANGED art
     \/ UpWrite("failing", "stampingBlock", "rejecting", art' = [art EXCEPT !.status = "failed"], UNCHANGED art)
        /\ UNCHANGED run
     \/ UpWrite("stampingBlock", "done", "rejecting", art' = WithVerdict("blocked"), UNCHANGED art)
        /\ UNCHANGED run
  /\ UNCHANGED <<bytes, historyVars>>

\* handleProviderError and markArtifactFailed.  A write that fails ends the request.
RejectNow ==
  /\ \/ Unlocked /\ UpWrite("rejecting", "failingRejected", "left", run' = RunStatus("failed"), UNCHANGED run)
        /\ UNCHANGED art
     \/ UpWrite("failingRejected", "stampingRejected", "left", art' = [art EXCEPT !.status = "failed"], UNCHANGED art)
        /\ UNCHANGED run
     \/ UpWrite("stampingRejected", "done", "left", art' = WithVerdict("failed"), UNCHANGED art)
        /\ UNCHANGED run
  /\ UNCHANGED <<bytes, historyVars>>

\* runAsync: pending is stamped before the job exists.
Stamp ==
  /\ UpWrite("stamping", "queueing", "closing", art' = WithVerdict("pending"), UNCHANGED art)
  /\ UNCHANGED <<bytes, run, historyVars>>

Queue ==
  /\ \/ Up("queueing", "done") /\ job' = [job EXCEPT !.status = "queued"] /\ UNCHANGED <<faults, disputed>>
     \/ /\ Up("queueing", "closing") /\ Fault
        /\ job' \in {job, [job EXCEPT !.status = "queued"]}
        /\ disputed' = (job' # job)
  /\ UNCHANGED <<art, bytes, run, attemptVars, lock, blocked>>

\* closeFailedEnqueue: each write runs even if the one before it failed.
CloseWrite(from, to, Effect, Same) ==
  \/ Effect /\ Request(from, to) /\ UNCHANGED <<faults, disputed>>
  \/ (Effect \/ Same) /\ Request(from, to) /\ Fault /\ disputed' = TRUE

CloseFailedEnqueue ==
  /\ \/ /\ \/ CloseWrite("closing", "closingDetail", art' = [art EXCEPT !.status = "failed"], UNCHANGED art)
           \/ CloseWrite("closingNoRun", "closingLast", art' = [art EXCEPT !.status = "failed"], UNCHANGED art)
           \/ CloseWrite("closingDetail", "closingRun", art' = WithVerdict("failed"), UNCHANGED art)
           \/ CloseWrite("closingLast", "done", art' = WithVerdict("failed"), UNCHANGED art)
        /\ UNCHANGED run
     \/ /\ Unlocked
        /\ CloseWrite("closingRun", "done", run' = RunStatus("failed"), UNCHANGED run)
        /\ UNCHANGED art
  /\ UNCHANGED <<bytes, blocked>>

\* The process dies, or the policy read or a late write fails, and nobody resumes the
\* request.
Leave ==
  /\ up \notin {"done", "left"}
  /\ up' = "left" /\ Fault
  /\ UNCHANGED <<art, bytes, run, job, attemptVars, lock, historyVars>>

-----------------------------------------------------------------------------
(* The attempts of the job: PiiScanJobHandler.execute                      *)

Go(w, from, to) == at[w] = from /\ at' = [at EXCEPT ![w] = to]

\* An execution that fails before its decision is applied records the failure; a
\* recovery is tried again by a later tick.
AfterError(w) == IF role[w] = "job" THEN "retrying" ELSE "idle"

Write(w, from, to, Effect, Same) ==
  \/ Effect /\ Go(w, from, to) /\ UNCHANGED faults
  \/ (Effect \/ Same) /\ Go(w, from, AfterError(w)) /\ Fault

\* claimDueJobs.  The answer can be lost, and the claim then has no attempt.
Claim(w) ==
  /\ at[w] = "idle" /\ job.status = "queued"
  /\ job' = [status |-> "claimed", attempts |-> job.attempts + 1, stale |-> FALSE]
  /\ \/ Go(w, "idle", "reading") /\ role' = [role EXCEPT ![w] = "job"] /\ UNCHANGED faults
     \/ Fault /\ UNCHANGED <<at, role>>
  /\ UNCHANGED <<up, art, bytes, run, verdict, lock, historyVars>>

Age ==
  /\ job.status = "claimed" /\ ~job.stale
  /\ job' = [job EXCEPT !.stale = TRUE]
  /\ UNCHANGED <<up, art, bytes, run, attemptVars, lock, faults, historyVars>>

\* A block starts with the bytes, everything else with the verdict of the file.
FirstStep(v) == IF v = "block" THEN "purging" ELSE "stamping"

\* recordedDecision: the open run of an attempt that stopped has one.
Resumes(w, from, otherwise) ==
  IF RunOpen /\ run.decision # None
    THEN Go(w, from, FirstStep(run.decision)) /\ verdict' = [verdict EXCEPT ![w] = run.decision]
    ELSE Go(w, from, otherwise) /\ UNCHANGED verdict

ReadDecision(w) ==
  /\ \/ Resumes(w, "reading", "opening") /\ UNCHANGED faults
     \/ Go(w, "reading", AfterError(w)) /\ Fault /\ UNCHANGED verdict
  /\ UNCHANGED <<up, art, bytes, run, job, role, lock, historyVars>>

\* A closed run is not opened again, and the job is left to its other attempt.
Open(w) ==
  /\ Unlocked
  /\ IF RunOpen
       THEN Write(w, "opening", "deciding", run' = RunStatus("processing"), UNCHANGED run)
       ELSE Go(w, "opening", "idle") /\ UNCHANGED <<run, faults>>
  /\ UNCHANGED <<up, art, bytes, job, role, verdict, lock, historyVars>>

\* Protection may be off by now, so a file whose bytes are gone can pass.
Decide(w) ==
  /\ \/ \E v \in Verdicts :
          /\ v = "block" => bytes = "stored"
          /\ Go(w, "deciding", "recording")
          /\ verdict' = [verdict EXCEPT ![w] = v]
     \/ \E next \in {"retrying", "givingUp"} : Go(w, "deciding", next) /\ UNCHANGED verdict
  /\ UNCHANGED <<up, art, bytes, run, job, role, lock, faults, historyVars>>

RecordsAnyway == RunOpen
Records == RunOpen /\ run.decision = None

\* recordDecision: the first decision of an open run wins.
Record(w) ==
  /\ Unlocked
  /\ IF Records
       THEN /\ Write(w, "recording", FirstStep(verdict[w]),
                     run' = [run EXCEPT !.decision = verdict[w]], UNCHANGED run)
            /\ blocked' = (blocked \/ (run' # run /\ verdict[w] = "block"))
       ELSE Go(w, "recording", "rereading") /\ UNCHANGED <<run, faults, blocked>>
  /\ UNCHANGED <<up, art, bytes, job, role, verdict, lock, disputed>>

Reread(w) ==
  /\ \/ Resumes(w, "rereading", "idle") /\ UNCHANGED faults
     \/ Go(w, "rereading", AfterError(w)) /\ Fault /\ UNCHANGED verdict
  /\ UNCHANGED <<up, art, bytes, run, job, role, lock, historyVars>>

\* A delete that fails is recorded, and the block goes on.
Purge(w) ==
  /\ \/ Go(w, "purging", "stamping") /\ UNCHANGED faults
     \/ Go(w, "purging", AfterError(w)) /\ Fault
  /\ bytes' \in {bytes, "purged"}
  /\ UNCHANGED <<up, art, run, job, role, verdict, lock, historyVars>>

StampVerdict(w) ==
  /\ Write(w, "stamping", "closing",
           art' = WithVerdict(IF verdict[w] = "block" THEN "blocked" ELSE "scanned"), UNCHANGED art)
  /\ UNCHANGED <<up, bytes, run, job, role, verdict, lock, historyVars>>

\* The last write of a decision clears it.
CloseRun(w) ==
  /\ Unlocked
  /\ Write(w, "closing", IF role[w] = "job" THEN "acknowledging" ELSE "idle",
           run' = Closed(IF verdict[w] = "block" THEN "blocked" ELSE "completed"), UNCHANGED run)
  /\ UNCHANGED <<up, art, bytes, job, role, verdict, lock, historyVars>>

\* markCompleted, whatever the row holds.  Its failure is left to the sweep.
Acknowledge(w) ==
  /\ Go(w, "acknowledging", "idle")
  /\ \/ job' = [job EXCEPT !.status = "completed"] /\ UNCHANGED faults
     \/ job' \in {job, [job EXCEPT !.status = "completed"]} /\ Fault
  /\ UNCHANGED <<up, art, bytes, run, role, verdict, lock, historyVars>>

Exhausted == job.attempts >= MaxAttempts
Returned(gone) == [job EXCEPT !.status = IF gone THEN "failed" ELSE "queued", !.stale = FALSE]

\* recordFailure, whatever the row holds.
RecordFailure(w) ==
  /\ at[w] \in {"retrying", "givingUp"}
  /\ LET gone == at[w] = "givingUp" \/ Exhausted
     IN \/ /\ job' = Returned(gone)
           /\ Go(w, at[w], IF gone THEN "finishing" ELSE "idle") /\ UNCHANGED faults
        \/ /\ job' \in {job, Returned(gone)}
           /\ Go(w, at[w], "idle") /\ Fault
  /\ UNCHANGED <<up, art, bytes, run, role, verdict, lock, historyVars>>

-----------------------------------------------------------------------------
(* What closes a failed job: finishFailedJob                               *)

\* listUnfinishedFailures
Recover(w) ==
  /\ Go(w, "idle", "finishing")
  /\ job.status = "failed" /\ (RunOpen \/ art.status = "pending")
  /\ UNCHANGED <<up, art, bytes, run, job, role, verdict, lock, faults, historyVars>>

\* finishUndecidedFailure locks the run before it looks at the decision.
FailsUndecided(w) == RunOpen
Undecided(w) == RunOpen /\ run.decision = None

Finish(w) ==
  /\ Unlocked
  /\ role' = [role EXCEPT ![w] = "recovery"]
  /\ IF Undecided(w)
       THEN Go(w, "finishing", "withdrawing") /\ lock' = w /\ UNCHANGED verdict
       ELSE Resumes(w, "finishing", "idle") /\ UNCHANGED lock
  /\ UNCHANGED <<up, art, bytes, run, job, faults, historyVars>>

\* The file is written on a connection of its own, before the run closes.
Withdraw(w) ==
  /\ \/ art' = WithVerdict("failed") /\ Go(w, "withdrawing", "sealing") /\ UNCHANGED <<lock, faults>>
     \/ art' \in {art, WithVerdict("failed")} /\ Go(w, "withdrawing", "idle") /\ lock' = None /\ Fault
  /\ UNCHANGED <<up, bytes, run, job, role, verdict, historyVars>>

Seal(w) ==
  /\ Go(w, "sealing", "idle") /\ lock' = None
  /\ \/ run' = RunStatus("failed") /\ UNCHANGED faults
     \/ run' \in {run, RunStatus("failed")} /\ Fault
  /\ UNCHANGED <<up, art, bytes, job, role, verdict, historyVars>>

\* sweepStaleClaims
RetriesOnly == job.status = "claimed" /\ job.stale /\ ~Exhausted
StaleClaim == job.status = "claimed" /\ job.stale

\* Two statements, and a run can close between them.
SweepDecided ==
  /\ StaleClaim /\ run.status \in {"completed", "blocked"}
  /\ job' = [job EXCEPT !.status = "completed"]
  /\ UNCHANGED <<up, art, bytes, run, attemptVars, lock, faults, historyVars>>

SweepClaim ==
  /\ StaleClaim
  /\ job' = Returned(Exhausted)
  /\ UNCHANGED <<up, art, bytes, run, attemptVars, lock, faults, historyVars>>

\* The process of an attempt dies; its transaction rolls back.
Crash(w) ==
  /\ at[w] # "idle"
  /\ at' = [at EXCEPT ![w] = "idle"] /\ Fault
  /\ lock' = IF lock = w THEN None ELSE lock
  /\ UNCHANGED <<up, art, bytes, run, job, role, verdict, historyVars>>

-----------------------------------------------------------------------------
UploadStep ==
  \/ Skip \/ StopForInvalidPolicy \/ ScanNow \/ QueueScan \/ EvaluateNow \/ PassNow \/ BlockNow \/ RejectNow
  \/ Stamp \/ Queue \/ CloseFailedEnqueue

AttemptStep(w) ==
  \/ ReadDecision(w) \/ Open(w) \/ Decide(w) \/ Record(w) \/ Reread(w)
  \/ Purge(w) \/ StampVerdict(w) \/ CloseRun(w) \/ Acknowledge(w) \/ RecordFailure(w)
  \/ Finish(w) \/ Withdraw(w) \/ Seal(w)

Next ==
  \/ UploadStep \/ Leave
  \/ \E w \in Attempts : Claim(w) \/ AttemptStep(w) \/ Recover(w) \/ Crash(w)
  \/ Age \/ SweepDecided \/ SweepClaim

Spec == Init /\ [][Next]_vars

\* Ticks go on, claims get old, and an attempt that was answered goes on.  The request
\* of the upload ends.
Fairness ==
  /\ WF_vars(UploadStep) /\ WF_vars(Age) /\ WF_vars(SweepDecided \/ SweepClaim)
  /\ WF_vars(\E w \in Attempts : Claim(w)) /\ WF_vars(\E w \in Attempts : Recover(w))
  /\ \A w \in Attempts : WF_vars(AttemptStep(w))

LiveSpec == Spec /\ Fairness

-----------------------------------------------------------------------------
(* Properties                                                              *)

Steps == {"idle", "reading", "opening", "deciding", "recording", "rereading", "purging", "stamping",
          "closing", "acknowledging", "retrying", "givingUp", "finishing", "withdrawing", "sealing"}

\* The shape of the state.
TypeOK ==
  /\ art \in [status : {"pending", "ready", "failed"}, pii : {"none", "pending", "scanned", "blocked", "failed"}]
  /\ bytes \in {"stored", "purged"}
  /\ run \in [status : {"none", "pending", "processing", "completed", "blocked", "failed"},
              decision : Verdicts \cup {None}]
  /\ job \in [status : {"none", "queued", "claimed", "completed", "failed"}, attempts : 0..MaxAttempts,
              stale : BOOLEAN]
  /\ at \in [Attempts -> Steps]
  /\ role \in [Attempts -> {"job", "recovery"}]
  /\ verdict \in [Attempts -> Verdicts \cup {None}]
  /\ lock \in Attempts \cup {None}
  /\ faults \in 0..MaxFaults /\ {blocked, disputed} \subseteq BOOLEAN

\* A file that a scan decided to block is not handed out or recorded as scanned afterwards,
\* whatever attempt, retry, recovery or failed request writes its rows.
BlockedIsWithheld ==
  blocked => ~Eligible /\ art.pii # "scanned" /\ run.status # "completed"

\* Once the run of a queued scan is closed its file says the same, whatever other attempt
\* was under way.
VerdictsAgree ==
  job.status # "none" /\ ~disputed =>
    /\ run.status = "completed" => art.pii = "scanned"
    /\ run.status = "blocked" => art.pii = "blocked"
    /\ run.status = "failed" => art.pii = "failed"

\* The shape of the state, and what a closed run says of its file.
ScanInvariant == TypeOK /\ VerdictsAgree

\* A queued upload does not stay pending for good.
UploadSettles == (art.status = "pending" /\ job.status # "none") ~> (art.status # "pending" \/ disputed)
=============================================================================
