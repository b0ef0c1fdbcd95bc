-------------------------- MODULE UploadScanProofs --------------------------
(***************************************************************************)
(* Proofs about UploadScan, for any number of attempts, retries and faults.*)
(***************************************************************************)
EXTENDS UploadScan, TLAPS

-----------------------------------------------------------------------------
(* The inductive invariant                                                 *)

\* Before its scan is queued or evaluated the upload is as it was received, and a request
\* that lets the file pass was not told to block it.
RequestInv ==
  /\ up \in {"received", "scanning", "stamping", "queueing"} =>
       art.status = "pending" /\ art.pii # "scanned" /\ ~blocked
  /\ up \in {"received", "scanning"} => run.status \in {"none", "processing"}
  /\ up \in {"stamping", "queueing"} => run.status = "pending"
  /\ up \in {"passing", "stampingPass", "admitting"} => ~blocked
  /\ up \notin {"done", "left", "closing", "closingDetail", "closingRun"} => job.status = "none"

\* Nobody acts on a job that does not exist, and the request leaves alone one that does,
\* unless it was told that it could not queue it.
JobInv ==
  /\ job.status = "none" =>
       run.decision = None /\ job.attempts = 0 /\ \A w \in Attempts : at[w] = "idle"
  /\ job.status # "none" /\ ~disputed => up \in {"done", "left"}
  /\ job.status = "queued" => job.attempts < MaxAttempts

Applying == {"purging", "stamping", "closing"}
UndecidedRun == RunOpen /\ run.decision = None

\* An attempt applies the decision that the run recorded, and only after it is recorded.
DecisionInv ==
  /\ blocked => art.status # "ready" /\ art.pii # "scanned" /\ run.status # "completed"
  /\ job.status # "none" =>
       /\ UndecidedRun => ~blocked /\ art.status # "ready" /\ art.pii # "scanned"
       /\ RunOpen /\ run.decision # None => (run.decision = "block" <=> blocked)
       /\ run.status = "blocked" => blocked
  /\ \A w \in Attempts :
       /\ at[w] = "recording" => verdict[w] # None
       /\ at[w] \in Applying => verdict[w] # None /\ ~UndecidedRun /\ (verdict[w] = "block" <=> blocked)

\* A recovery that withdraws the file holds the row of the run, which has no decision.
LockInv ==
  /\ \A w \in Attempts : at[w] \in {"withdrawing", "sealing"} <=> lock = w
  /\ lock # None => UndecidedRun

PiiOf(v) == IF v = "block" THEN "blocked" ELSE "scanned"

\* The file says what the run is about to say.
AgreeInv ==
  job.status # "none" /\ ~disputed =>
    \A w \in Attempts :
      /\ at[w] = "closing" => art.pii = PiiOf(verdict[w])
      /\ at[w] = "sealing" => art.pii = "failed"
      /\ at[w] \in Applying => run.status # "failed"

ScanInv == TypeOK /\ RequestInv /\ JobInv /\ DecisionInv /\ LockInv /\ AgreeInv /\ VerdictsAgree

-----------------------------------------------------------------------------
(* The upload request                                                      *)

\* A write of the file keeps its shape.
LEMMA VerdictType ==
  ASSUME TypeOK, NEW pii \in {"pending", "scanned", "blocked", "failed"}
  PROVE  /\ WithVerdict(pii) \in [status : {"pending", "ready", "failed"},
                                  pii : {"none", "pending", "scanned", "blocked", "failed"}]
         /\ WithVerdict(pii).pii = pii
         /\ pii # "scanned" /\ art.status # "ready" => WithVerdict(pii).status # "ready"
         /\ pii = "pending" => WithVerdict(pii).status = art.status
BY DEF TypeOK, WithVerdict

\* A fault is counted.
LEMMA FaultType ==
  ASSUME TypeOK, Fault
  PROVE  faults' \in 0..MaxFaults
BY ScanAssumption DEF TypeOK, Fault

Requested ==
  \/ Skip \/ StopForInvalidPolicy \/ ScanNow \/ QueueScan \/ EvaluateNow \/ PassNow \/ BlockNow \/ RejectNow \/ Stamp

\* Until its scan is queued, the request is alone.
LEMMA RequestStep == ASSUME ScanInv, Requested PROVE ScanInv'
<1> USE DEF ScanInv, UpWrite, Request, Up
<1>1. UNCHANGED <<job, attemptVars, lock, disputed>>
  BY DEF Requested, Skip, StopForInvalidPolicy, ScanNow, QueueScan, EvaluateNow, PassNow, BlockNow, RejectNow, Stamp,
         historyVars
<1>2. up \notin {"done", "left", "closing", "closingDetail", "closingRun"}
  BY DEF Requested, Skip, StopForInvalidPolicy, ScanNow, QueueScan, EvaluateNow, PassNow, BlockNow, RejectNow, Stamp
<1>3. job.status = "none" /\ run.decision = None /\ lock = None /\ \A w \in Attempts : at[w] = "idle"
  BY <1>2 DEF RequestInv, JobInv, LockInv, TypeOK
<1>4. faults' \in 0..MaxFaults
  BY FaultType DEF Requested, Skip, StopForInvalidPolicy, ScanNow, QueueScan, EvaluateNow, PassNow, BlockNow, RejectNow,
                   Stamp, TypeOK
<1>5. /\ art' \in [status : {"pending", "ready", "failed"}, pii : {"none", "pending", "scanned", "blocked", "failed"}]
      /\ bytes' \in {"stored", "purged"}
      /\ up \notin {"passing", "stampingPass", "admitting"} /\ art.status # "ready" => art'.status # "ready"
      /\ up \notin {"passing", "stampingPass", "admitting"} /\ art.pii # "scanned" => art'.pii # "scanned"
  BY VerdictType DEF Requested, Skip, StopForInvalidPolicy, ScanNow, QueueScan, EvaluateNow, PassNow, BlockNow,
                     RejectNow, Stamp, TypeOK
<1>6. /\ run' \in [status : {"none", "pending", "processing", "completed", "blocked", "failed"},
                   decision : Verdicts \cup {None}]
      /\ run'.decision = None
      /\ up \notin {"passing", "stampingPass", "admitting"} /\ run.status # "completed" => run'.status # "completed"
  BY <1>3 DEF Requested, Skip, StopForInvalidPolicy, ScanNow, QueueScan, EvaluateNow, PassNow, BlockNow, RejectNow,
              Stamp, RunStatus, TypeOK
<1>a. blocked' = blocked \/ (up = "scanning" /\ blocked' = TRUE)
  BY DEF Requested, Skip, StopForInvalidPolicy, ScanNow, QueueScan, EvaluateNow, PassNow, BlockNow, RejectNow, Stamp,
         historyVars
<1>7. /\ blocked' \in BOOLEAN
      /\ blocked' => /\ up \notin {"passing", "stampingPass", "admitting"}
                     /\ art.status # "ready" /\ art.pii # "scanned" /\ run.status # "completed"
  <2>1. CASE blocked' = blocked
    BY <2>1 DEF TypeOK, RequestInv, DecisionInv
  <2>2. CASE up = "scanning" /\ blocked' = TRUE
    BY <2>2 DEF RequestInv
  <2> QED
    BY <1>a, <2>1, <2>2
<1>8. TypeOK'
  BY <1>1, <1>4, <1>5, <1>6, <1>7 DEF TypeOK, attemptVars
<1>9. RequestInv'
  <2>1. CASE Skip \/ StopForInvalidPolicy \/ ScanNow \/ QueueScan
    BY <2>1, <1>1, <1>3 DEF Skip, StopForInvalidPolicy, ScanNow, QueueScan, RequestInv, historyVars
  <2>2. CASE EvaluateNow
    BY <2>2, <1>1, <1>3 DEF EvaluateNow, RequestInv
  <2>3. CASE PassNow \/ BlockNow \/ RejectNow
    BY <2>3, <1>1, <1>3 DEF PassNow, BlockNow, RejectNow, RequestInv, historyVars
  <2>4. CASE Stamp
    BY <2>4, <1>1, <1>3, VerdictType DEF Stamp, RequestInv, historyVars
  <2> QED
    BY <2>1, <2>2, <2>3, <2>4 DEF Requested
<1>10. JobInv' /\ LockInv' /\ AgreeInv' /\ VerdictsAgree'
  BY <1>1, <1>3, <1>6 DEF JobInv, LockInv, AgreeInv, VerdictsAgree, attemptVars
<1>11. DecisionInv'
  BY <1>1, <1>3, <1>5, <1>6, <1>7 DEF DecisionInv, attemptVars, Applying
<1> QED
  BY <1>8, <1>9, <1>10, <1>11

\* The answer of the queue decides whether the request still believes that it has no job.
LEMMA QueueStep == ASSUME ScanInv, Queue PROVE ScanInv'
<1> USE DEF ScanInv, Queue, Up
<1>1. /\ job.status = "none" /\ run.decision = None /\ \A w \in Attempts : at[w] = "idle"
      /\ UNCHANGED <<art, bytes, run, at, role, verdict, lock, blocked>>
  BY DEF RequestInv, JobInv, attemptVars
<1>2. job' = job \/ job' = [job EXCEPT !.status = "queued"]
  OBVIOUS
<1>3. ~blocked /\ art.status # "ready" /\ art.pii # "scanned" /\ run.status = "pending"
  BY DEF RequestInv
<1>4. disputed' \in BOOLEAN
  BY DEF TypeOK
<1>5. faults' \in 0..MaxFaults
  BY FaultType DEF TypeOK
<1>6. TypeOK'
  BY <1>1, <1>2, <1>4, <1>5 DEF TypeOK
<1>7. RequestInv' /\ DecisionInv' /\ LockInv'
  BY <1>1, <1>3 DEF RequestInv, DecisionInv, LockInv, UndecidedRun, RunOpen, Applying
<1>8. AgreeInv' /\ VerdictsAgree'
  BY <1>1, <1>3 DEF AgreeInv, VerdictsAgree, Applying
<1>9. JobInv'
  <2>1. job'.attempts = 0 /\ job.attempts = 0 /\ MaxAttempts > 0
    BY <1>1, <1>2, ScanAssumption DEF TypeOK, JobInv
  <2>2. job'.status # "none" => job'.status = "queued" /\ (up' = "done" \/ disputed')
    BY <1>1, <1>2 DEF TypeOK
  <2> QED
    BY <1>1, <2>1, <2>2 DEF JobInv
<1> QED
  BY <1>6, <1>7, <1>8, <1>9

\* A request that could not queue its scan closes it, also when the job exists.
LEMMA CloseStep == ASSUME ScanInv, CloseFailedEnqueue PROVE ScanInv'
<1> USE DEF ScanInv, CloseFailedEnqueue, CloseWrite, Request, Up
<1>1. UNCHANGED <<job, attemptVars, lock, bytes, blocked>>
  OBVIOUS
<1>2. /\ up \in {"closing", "closingNoRun", "closingDetail", "closingLast", "closingRun"}
      /\ up' \in {"closingDetail", "closingLast", "closingRun", "done"}
      /\ up \in {"closingNoRun", "closingLast"} => up' \in {"closingLast", "done"}
      /\ up' = "closingLast" => up = "closingNoRun"
  OBVIOUS
<1>3. disputed' = disputed \/ disputed' = TRUE
  OBVIOUS
<1>4. job.status = "none" \/ disputed
  BY <1>2 DEF JobInv, RequestInv
<1>5. /\ art' \in [status : {"pending", "ready", "failed"}, pii : {"none", "pending", "scanned", "blocked", "failed"}]
      /\ art.status # "ready" => art'.status # "ready"
      /\ art.pii # "scanned" => art'.pii # "scanned"
  BY VerdictType DEF TypeOK
<1>6. run' = run \/ (run' = RunStatus("failed") /\ lock = None)
  BY DEF Unlocked
<1>7. faults' \in 0..MaxFaults
  BY FaultType DEF TypeOK
<1>8. disputed' \in BOOLEAN
  BY <1>3 DEF TypeOK
<1>9. TypeOK'
  BY <1>1, <1>5, <1>6, <1>7, <1>8 DEF TypeOK, RunStatus, attemptVars
<1>10. RequestInv'
  BY <1>1, <1>2 DEF RequestInv
<1>11. JobInv'
  BY <1>1, <1>3, <1>4, <1>6 DEF JobInv, RunStatus, attemptVars, TypeOK
<1>12. DecisionInv'
  BY <1>1, <1>5, <1>6 DEF DecisionInv, UndecidedRun, RunOpen, RunStatus, attemptVars, Applying, TypeOK
<1>13. LockInv'
  BY <1>1, <1>6 DEF LockInv, UndecidedRun, RunOpen, attemptVars
<1>14. AgreeInv' /\ VerdictsAgree'
  BY <1>1, <1>3, <1>4 DEF AgreeInv, VerdictsAgree
<1> QED
  BY <1>9, <1>10, <1>11, <1>12, <1>13, <1>14

\* A request that is left does nothing more.
LEMMA LeaveStep == ASSUME ScanInv, Leave PROVE ScanInv'
<1>1. TypeOK'
  BY FaultType DEF ScanInv, Leave, TypeOK, attemptVars, historyVars
<1> QED
  BY <1>1 DEF ScanInv, Leave, RequestInv, JobInv, DecisionInv, UndecidedRun, RunOpen, LockInv, AgreeInv, VerdictsAgree,
              attemptVars, historyVars

-----------------------------------------------------------------------------
(* The attempts                                                            *)

\* Whoever is under way has a job.
LEMMA JobExists ==
  ASSUME ScanInv, NEW w \in Attempts, at[w] # "idle"
  PROVE  job.status # "none"
BY DEF ScanInv, JobInv

\* What a step of an attempt changes of the job never makes it absent.
JobGoesOn ==
  /\ job'.status = "none" <=> job.status = "none"
  /\ job.status = "none" => job' = job
  /\ job'.status = "queued" => job'.attempts < MaxAttempts

\* An attempt takes its decision from the run.
Follows(w) ==
  at'[w] \in Applying => \/ at[w] \in Applying /\ verdict'[w] = verdict[w] /\ (at'[w] = "closing" => at[w] = "closing")
                         \/ /\ RunOpen /\ run.decision # None /\ verdict'[w] = run.decision /\ at'[w] # "closing"
                            /\ job.status # "none"

\* A step that writes no row of the scan and takes no lock.
LEMMA QuietAttempt ==
  ASSUME ScanInv, TypeOK', UNCHANGED <<up, art, run, lock, historyVars>>, JobGoesOn,
         NEW w \in Attempts, \A q \in Attempts : q # w => at'[q] = at[q] /\ verdict'[q] = verdict[q],
         {at[w], at'[w]} \cap {"withdrawing", "sealing"} = {},
         at'[w] = "recording" => verdict'[w] # None,
         at'[w] # "idle" => job'.status # "none",
         Follows(w)
  PROVE  ScanInv'
<1> USE DEF ScanInv, historyVars
<1>1. RequestInv' /\ JobInv'
  BY DEF RequestInv, JobInv, JobGoesOn
<1>2. DecisionInv'
  BY DEF DecisionInv, UndecidedRun, RunOpen, Follows, JobGoesOn
<1>3. LockInv'
  BY DEF LockInv, UndecidedRun, RunOpen
<1>4. AgreeInv' /\ VerdictsAgree'
  BY DEF AgreeInv, VerdictsAgree, Follows, JobGoesOn, RunOpen, Applying
<1> QED
  BY <1>1, <1>2, <1>3, <1>4

\* The recorded decision says where to begin.
LEMMA ResumesFollows ==
  ASSUME TypeOK, NEW w \in Attempts, NEW from, NEW otherwise \in Steps \ Applying, Resumes(w, from, otherwise),
         job.status # "none"
  PROVE  /\ at' \in [Attempts -> Steps] /\ verdict' \in [Attempts -> Verdicts \cup {None}]
         /\ at[w] = from
         /\ at'[w] \in {otherwise, "purging", "stamping"}
         /\ \A q \in Attempts : q # w => at'[q] = at[q] /\ verdict'[q] = verdict[q]
         /\ at'[w] = otherwise => verdict'[w] = verdict[w]
         /\ Follows(w)
BY DEF TypeOK, Resumes, Go, FirstStep, Follows, Steps, Applying, Verdicts

\* Reading and deciding, and the steps that write the row of the job only.
LEMMA ReadStep ==
  ASSUME ScanInv, NEW w \in Attempts, ReadDecision(w) \/ Reread(w)
  PROVE  ScanInv'
<1>1. job.status # "none" /\ TypeOK
  BY JobExists DEF ReadDecision, Reread, Resumes, Go, ScanInv
<1>2. /\ at' \in [Attempts -> Steps] /\ verdict' \in [Attempts -> Verdicts \cup {None}]
      /\ at[w] \in {"reading", "rereading"}
      /\ at'[w] \in {"opening", "idle", "retrying", "purging", "stamping"}
      /\ \A q \in Attempts : q # w => at'[q] = at[q] /\ verdict'[q] = verdict[q]
      /\ Follows(w)
  <2>1. CASE Resumes(w, "reading", "opening")
    BY <1>1, <2>1, ResumesFollows DEF Steps, Applying
  <2>2. CASE Resumes(w, "rereading", "idle")
    BY <1>1, <2>2, ResumesFollows DEF Steps, Applying
  <2>3. CASE UNCHANGED verdict /\ \E from \in {"reading", "rereading"} : Go(w, from, AfterError(w))
    BY <1>1, <2>3 DEF Go, AfterError, TypeOK, Steps, Applying, Follows
  <2> QED
    BY <2>1, <2>2, <2>3 DEF ReadDecision, Reread
<1>3. faults' \in 0..MaxFaults
  BY <1>1, FaultType DEF ReadDecision, Reread, TypeOK
<1>4. TypeOK'
  BY <1>1, <1>2, <1>3 DEF ReadDecision, Reread, TypeOK, historyVars
<1>5. JobGoesOn
  BY DEF ReadDecision, Reread, JobGoesOn, ScanInv, JobInv
<1> QED
  BY <1>1, <1>2, <1>4, <1>5, QuietAttempt DEF ReadDecision, Reread

\* A decision is made of a file whose run has none.
LEMMA DecideStep ==
  ASSUME ScanInv, NEW w \in Attempts, Decide(w) \/ Purge(w)
  PROVE  ScanInv'
<1>1. job.status # "none" /\ TypeOK
  BY JobExists DEF Decide, Purge, Go, ScanInv
<1>2. /\ at' \in [Attempts -> Steps] /\ verdict' \in [Attempts -> Verdicts \cup {None}]
      /\ at[w] \in {"deciding", "purging"}
      /\ at'[w] \in {"recording", "retrying", "givingUp", "idle", "stamping"}
      /\ at'[w] = "recording" => verdict'[w] # None
      /\ \A q \in Attempts : q # w => at'[q] = at[q] /\ verdict'[q] = verdict[q]
      /\ Follows(w)
  BY <1>1, ScanAssumption DEF Decide, Purge, Go, AfterError, TypeOK, Steps, Verdicts, Applying, Follows
<1>3. faults' \in 0..MaxFaults
  BY <1>1, FaultType DEF Decide, Purge, TypeOK
<1>4. TypeOK'
  BY <1>1, <1>2, <1>3 DEF Decide, Purge, TypeOK, historyVars
<1>5. JobGoesOn
  BY DEF Decide, Purge, JobGoesOn, ScanInv, JobInv
<1> QED
  BY <1>1, <1>2, <1>4, <1>5, QuietAttempt DEF Decide, Purge

JobRows == [status : {"none", "queued", "claimed", "completed", "failed"}, attempts : 0..MaxAttempts, stale : BOOLEAN]

\* A job goes back to the queue only while it has attempts left.
LEMMA ReturnedType ==
  ASSUME TypeOK, NEW gone \in BOOLEAN, Exhausted => gone
  PROVE  /\ Returned(gone) \in JobRows
         /\ Returned(gone).status # "none"
         /\ Returned(gone).status = "queued" => Returned(gone).attempts < MaxAttempts
<1>1. job \in JobRows
  BY DEF TypeOK, JobRows
<1>2. ~Exhausted => job.attempts < MaxAttempts
  BY <1>1, ScanAssumption DEF Exhausted, JobRows
<1>3. Returned(gone).attempts = job.attempts /\ Returned(gone).status = IF gone THEN "failed" ELSE "queued"
  BY <1>1 DEF Returned, JobRows
<1>4. Returned(gone) \in JobRows
  BY <1>1 DEF Returned, JobRows
<1> QED
  BY <1>2, <1>3, <1>4

\* The row of the job, which nothing else depends on.
LEMMA JobStep ==
  ASSUME ScanInv, NEW w \in Attempts, Claim(w) \/ Acknowledge(w) \/ RecordFailure(w) \/ Recover(w)
  PROVE  ScanInv'
<1>t. TypeOK
  BY DEF ScanInv
<1>1. job.status # "none"
  BY JobExists DEF Claim, Acknowledge, RecordFailure, Recover, Go
<1>2. /\ job' \in JobRows
      /\ job'.status # "none" /\ (job'.status = "queued" => job'.attempts < MaxAttempts)
  <2>1. job.status = "queued" => job.attempts < MaxAttempts
    BY DEF ScanInv, JobInv
  <2>2. CASE Claim(w)
    BY <1>t, <2>1, <2>2, ScanAssumption DEF Claim, TypeOK, JobRows
  <2>3. CASE Acknowledge(w) \/ Recover(w)
    BY <1>t, <1>1, <2>1, <2>3 DEF Acknowledge, Recover, TypeOK, JobRows
  <2>4. CASE RecordFailure(w)
    <3>1. PICK gone \in BOOLEAN : (Exhausted => gone) /\ job' \in {job, Returned(gone)}
      BY <2>4 DEF RecordFailure, Exhausted
    <3> QED
      BY <1>t, <1>1, <2>1, <3>1, ReturnedType DEF TypeOK, JobRows
  <2> QED
    BY <2>2, <2>3, <2>4
<1>3. /\ at' \in [Attempts -> Steps] /\ role' \in [Attempts -> {"job", "recovery"}]
      /\ \A q \in Attempts : q # w => at'[q] = at[q]
      /\ {at[w], at'[w]} \cap {"withdrawing", "sealing"} = {}
      /\ at'[w] \notin Applying \cup {"recording"}
  BY <1>t DEF Claim, Acknowledge, RecordFailure, Recover, Go, TypeOK, Steps, Applying
<1>4. faults' \in 0..MaxFaults
  BY <1>t, FaultType DEF Claim, Acknowledge, RecordFailure, Recover, TypeOK
<1>5. UNCHANGED <<up, art, bytes, run, verdict, lock, historyVars>>
  BY DEF Claim, Acknowledge, RecordFailure, Recover
<1>6. TypeOK'
  BY <1>t, <1>2, <1>3, <1>4, <1>5 DEF TypeOK, JobRows, historyVars
<1>7. JobGoesOn /\ Follows(w)
  BY <1>1, <1>2, <1>3 DEF JobGoesOn, Follows
<1> QED
  BY <1>1, <1>2, <1>3, <1>5, <1>6, <1>7, QuietAttempt

\* Time and the sweep of stale claims.
LEMMA SweepStep == ASSUME ScanInv, Age \/ SweepDecided \/ SweepClaim PROVE ScanInv'
<1>t. TypeOK
  BY DEF ScanInv
<1>1. job.status = "claimed" /\ UNCHANGED <<up, art, bytes, run, attemptVars, lock, faults, historyVars>>
  BY DEF Age, SweepDecided, SweepClaim, StaleClaim
<1>2. /\ job' \in JobRows
      /\ job'.status # "none" /\ (job'.status = "queued" => job'.attempts < MaxAttempts)
  <2>1. CASE Age \/ SweepDecided
    BY <1>t, <1>1, <2>1 DEF Age, SweepDecided, TypeOK, JobRows
  <2>2. CASE SweepClaim
    <3>1. Exhausted \in BOOLEAN /\ job' = Returned(Exhausted)
      BY <2>2 DEF SweepClaim, Exhausted
    <3> QED
      BY <1>t, <3>1, ReturnedType
  <2> QED
    BY <2>1, <2>2
<1>3. TypeOK'
  BY <1>t, <1>1, <1>2 DEF TypeOK, JobRows, attemptVars, historyVars
<1> QED
  BY <1>1, <1>2, <1>3 DEF ScanInv, RequestInv, JobInv, DecisionInv, UndecidedRun, RunOpen, LockInv, AgreeInv,
     VerdictsAgree, attemptVars, historyVars

\* The process of an attempt dies, and its lock with it.
LEMMA CrashStep == ASSUME ScanInv, NEW w \in Attempts, Crash(w) PROVE ScanInv'
<1> USE DEF ScanInv
<1>1. /\ \A q \in Attempts : q # w => at'[q] = at[q]
      /\ at'[w] = "idle" /\ lock' = IF lock = w THEN None ELSE lock
      /\ UNCHANGED <<up, art, bytes, run, job, role, verdict, historyVars>>
  BY DEF Crash, TypeOK
<1>2. TypeOK'
  BY FaultType DEF Crash, TypeOK, Steps, historyVars
<1>3. RequestInv' /\ JobInv' /\ VerdictsAgree'
  BY <1>1 DEF RequestInv, JobInv, VerdictsAgree, historyVars
<1>4. DecisionInv' /\ AgreeInv'
  BY <1>1 DEF DecisionInv, AgreeInv, UndecidedRun, RunOpen, Applying, historyVars
<1>5. LockInv'
  BY <1>1, ScanAssumption DEF LockInv, UndecidedRun, RunOpen, TypeOK
<1> QED
  BY <1>2, <1>3, <1>4, <1>5

\* A run that is closed is not opened again; opening keeps a decision.
LEMMA OpenStep == ASSUME ScanInv, NEW w \in Attempts, Open(w) PROVE ScanInv'
<1> USE DEF ScanInv, Open, Write, Go
<1>0. job.status # "none"
  BY JobExists
<1>1. /\ \A q \in Attempts : q # w => at'[q] = at[q]
      /\ at[w] = "opening" /\ at'[w] \in {"deciding", "idle", "retrying"} /\ at' \in [Attempts -> Steps]
      /\ run' = run \/ (RunOpen /\ run' = RunStatus("processing"))
      /\ UNCHANGED <<up, art, bytes, job, role, verdict, lock, historyVars>>
  BY DEF TypeOK, AfterError, Steps
<1>2. faults' \in 0..MaxFaults
  BY FaultType DEF TypeOK
<1>3. /\ run' \in [status : {"none", "pending", "processing", "completed", "blocked", "failed"},
                   decision : Verdicts \cup {None}]
      /\ run'.decision = run.decision /\ (RunOpen' <=> RunOpen)
      /\ run'.status \in {"completed", "blocked", "failed"} => run' = run
      /\ run'.status = "processing" \/ run' = run
  BY <1>1 DEF RunStatus, RunOpen, TypeOK
<1>4. TypeOK'
  BY <1>1, <1>2, <1>3 DEF TypeOK, historyVars
<1>5. RequestInv' /\ JobInv'
  BY <1>0, <1>1, <1>3 DEF RequestInv, JobInv, historyVars
<1>6. DecisionInv' /\ LockInv'
  BY <1>0, <1>1, <1>3 DEF DecisionInv, LockInv, UndecidedRun, Applying, historyVars
<1>7. AgreeInv' /\ VerdictsAgree'
  BY <1>1, <1>3 DEF AgreeInv, VerdictsAgree, Applying, historyVars
<1> QED
  BY <1>4, <1>5, <1>6, <1>7

\* The first decision of an open run wins.
LEMMA RecordStep == ASSUME ScanInv, NEW w \in Attempts, Record(w) PROVE ScanInv'
<1> USE DEF ScanInv, Record, Records, Write, Go
<1>0. job.status # "none" /\ lock = None
  BY JobExists DEF Unlocked
<1>1. /\ \A q \in Attempts : q # w => at'[q] = at[q]
      /\ at[w] = "recording" /\ at'[w] \in {"rereading", "purging", "stamping", "idle", "retrying"}
      /\ at' \in [Attempts -> Steps]
      /\ UNCHANGED <<up, art, bytes, job, role, verdict, lock, disputed>>
  BY DEF TypeOK, AfterError, FirstStep, Steps
<1>2. faults' \in 0..MaxFaults
  BY FaultType DEF TypeOK
<1>3. verdict[w] \in Verdicts /\ verdict[w] # None
  BY <1>1 DEF DecisionInv, TypeOK
<1>4. CASE run' = run
  <2>1. UNCHANGED blocked
    BY <1>4 DEF TypeOK
  <2>2. at'[w] \notin Applying
    BY <1>1, <1>3, <1>4 DEF TypeOK, AfterError, FirstStep, Applying
  <2>3. TypeOK'
    BY <1>1, <1>2, <1>4, <2>1 DEF TypeOK
  <2>4. RequestInv' /\ JobInv' /\ VerdictsAgree' /\ LockInv'
    BY <1>0, <1>1, <1>4, <2>1 DEF RequestInv, JobInv, VerdictsAgree, LockInv, UndecidedRun, RunOpen
  <2>5. DecisionInv' /\ AgreeInv'
    BY <1>0, <1>1, <1>4, <2>1, <2>2 DEF DecisionInv, AgreeInv, UndecidedRun, RunOpen, Applying
  <2> QED
    BY <2>3, <2>4, <2>5
<1>5. CASE run' # run
  <2>1. UndecidedRun /\ run' = [run EXCEPT !.decision = verdict[w]] /\ blocked' = (blocked \/ verdict[w] = "block")
    BY <1>5 DEF UndecidedRun
  <2>2. ~blocked /\ art.status # "ready" /\ art.pii # "scanned" /\ \A q \in Attempts : at[q] \notin Applying
    BY <1>0, <2>1 DEF DecisionInv
  <2>3. /\ run'.decision = verdict[w] /\ run'.status = run.status /\ run.status \in {"pending", "processing"}
        /\ run' \in [status : {"none", "pending", "processing", "completed", "blocked", "failed"},
                     decision : Verdicts \cup {None}]
    BY <1>3, <2>1 DEF UndecidedRun, RunOpen, TypeOK
  <2>4. blocked' \in BOOLEAN /\ (blocked' <=> verdict[w] = "block")
    BY <2>1, <2>2
  <2>5. TypeOK'
    BY <1>1, <1>2, <2>3, <2>4 DEF TypeOK
  <2>6. RequestInv' /\ JobInv' /\ VerdictsAgree' /\ LockInv'
    BY <1>0, <1>1, <2>3 DEF RequestInv, JobInv, VerdictsAgree, LockInv
  <2>7. DecisionInv'
    BY <1>0, <1>1, <1>3, <2>2, <2>3, <2>4 DEF DecisionInv, UndecidedRun, RunOpen, Applying
  <2>8. AgreeInv'
    BY <1>1, <2>2, <2>3 DEF AgreeInv, Applying
  <2> QED
    BY <2>5, <2>6, <2>7, <2>8
<1> QED
  BY <1>4, <1>5

\* Every attempt that stamps the file stamps the one decision.
LEMMA StampStep == ASSUME ScanInv, NEW w \in Attempts, StampVerdict(w) PROVE ScanInv'
<1> USE DEF ScanInv, StampVerdict, Write, Go
<1> DEFINE stamp == IF verdict[w] = "block" THEN "blocked" ELSE "scanned"
<1>0. job.status # "none"
  BY JobExists
<1>1. /\ \A q \in Attempts : q # w => at'[q] = at[q]
      /\ at[w] = "stamping" /\ at'[w] \in {"closing", "idle", "retrying"} /\ at' \in [Attempts -> Steps]
      /\ art' = art \/ art' = WithVerdict(stamp)
      /\ at'[w] = "closing" => art' = WithVerdict(stamp)
      /\ UNCHANGED <<up, bytes, run, job, role, verdict, lock, historyVars>>
  BY DEF TypeOK, AfterError, Steps
<1>2. faults' \in 0..MaxFaults
  BY FaultType DEF TypeOK
<1>3. /\ WithVerdict(stamp) \in [status : {"pending", "ready", "failed"},
                                 pii : {"none", "pending", "scanned", "blocked", "failed"}]
      /\ WithVerdict(stamp).pii = stamp
      /\ stamp # "scanned" /\ art.status # "ready" => WithVerdict(stamp).status # "ready"
  BY VerdictType
<1>4. ~UndecidedRun /\ (verdict[w] = "block" <=> blocked) /\ lock = None
  BY <1>1 DEF DecisionInv, LockInv, Applying
<1>5. TypeOK'
  BY <1>1, <1>2, <1>3 DEF TypeOK, historyVars
<1>6. RequestInv' /\ JobInv' /\ LockInv'
  BY <1>0, <1>1 DEF RequestInv, JobInv, LockInv, UndecidedRun, RunOpen, historyVars
<1>7. DecisionInv'
  BY <1>0, <1>1, <1>3, <1>4 DEF DecisionInv, UndecidedRun, RunOpen, Applying, historyVars
<1>8. \A q \in Attempts : at'[q] = "closing" /\ art' = WithVerdict(stamp) => PiiOf(verdict[q]) = stamp
  BY <1>1, <1>4 DEF DecisionInv, Applying, PiiOf
<1>9. \A q \in Attempts : at[q] # "sealing"
  BY <1>4, ScanAssumption DEF LockInv
<1>10. AgreeInv'
  BY <1>1, <1>3, <1>8, <1>9 DEF AgreeInv, Applying, historyVars
<1>11. VerdictsAgree'
  <2>1. ~disputed /\ run.status \in {"completed", "blocked", "failed"} =>
          /\ run.status = "completed" => stamp = "scanned"
          /\ run.status = "blocked" => stamp = "blocked"
          /\ run.status # "failed"
    BY <1>0, <1>1, <1>4 DEF AgreeInv, DecisionInv, Applying
  <2> QED
    BY <1>1, <1>3, <2>1 DEF VerdictsAgree, historyVars
<1> QED
  BY <1>5, <1>6, <1>7, <1>10, <1>11

\* The run closes as the decision says.
LEMMA CloseRunStep == ASSUME ScanInv, NEW w \in Attempts, CloseRun(w) PROVE ScanInv'
<1> USE DEF ScanInv, CloseRun, Write, Go, Unlocked
<1> DEFINE final == Closed(IF verdict[w] = "block" THEN "blocked" ELSE "completed")
<1>0. job.status # "none" /\ lock = None
  BY JobExists
<1>1. /\ \A q \in Attempts : q # w => at'[q] = at[q]
      /\ at[w] = "closing" /\ at'[w] \in {"acknowledging", "idle", "retrying"} /\ at' \in [Attempts -> Steps]
      /\ run' = run \/ run' = final
      /\ UNCHANGED <<up, art, bytes, job, role, verdict, lock, historyVars>>
  BY DEF TypeOK, AfterError, Steps
<1>2. faults' \in 0..MaxFaults
  BY FaultType DEF TypeOK
<1>3. /\ final \in [status : {"none", "pending", "processing", "completed", "blocked", "failed"},
                    decision : Verdicts \cup {None}]
      /\ final.status = IF verdict[w] = "block" THEN "blocked" ELSE "completed"
      /\ final.decision = None
  BY DEF Closed
<1>4. (verdict[w] = "block" <=> blocked) /\ (~disputed => art.pii = PiiOf(verdict[w]))
  BY <1>0, <1>1 DEF DecisionInv, AgreeInv, Applying
<1>5. TypeOK'
  BY <1>1, <1>2, <1>3 DEF TypeOK, historyVars
<1>6. RequestInv' /\ JobInv' /\ LockInv'
  <2>1. up \in {"done", "left", "closing", "closingDetail", "closingRun"}
    BY <1>0 DEF RequestInv
  <2> QED
    BY <1>0, <1>1, <2>1 DEF RequestInv, JobInv, LockInv, historyVars
<1>7. DecisionInv'
  <2>1. UndecidedRun' => UndecidedRun /\ run' = run
    BY <1>1, <1>3 DEF UndecidedRun, RunOpen
  <2>2. RunOpen' => run' = run
    BY <1>1, <1>3 DEF RunOpen
  <2>3. run' # run => run'.status = IF blocked THEN "blocked" ELSE "completed"
    BY <1>1, <1>3, <1>4
  <2> QED
    BY <1>0, <1>1, <2>1, <2>2, <2>3 DEF DecisionInv, UndecidedRun, RunOpen, Applying, historyVars
<1>8. AgreeInv' /\ VerdictsAgree'
  BY <1>1, <1>3, <1>4 DEF AgreeInv, VerdictsAgree, PiiOf, Applying, historyVars
<1> QED
  BY <1>5, <1>6, <1>7, <1>8

\* A recovery takes the run only while it has no decision, and applies one that it has.
LEMMA FinishStep == ASSUME ScanInv, NEW w \in Attempts, Finish(w) PROVE ScanInv'
<1> USE DEF ScanInv, Finish, Unlocked
<1>0. at[w] = "finishing" /\ lock = None
  BY DEF Go, Resumes
<1>1. job.status # "none"
  BY <1>0, JobExists
<1>2. role' \in [Attempts -> {"job", "recovery"}]
  BY DEF TypeOK
<1>3. CASE Undecided(w)
  <2>1. /\ \A q \in Attempts : q # w => at'[q] = at[q]
        /\ at'[w] = "withdrawing" /\ at' \in [Attempts -> Steps] /\ lock' = w
        /\ UNCHANGED <<up, art, bytes, run, job, verdict, faults, historyVars>>
    BY <1>3 DEF Go, TypeOK, Steps
  <2>2. TypeOK'
    BY <1>2, <2>1 DEF TypeOK, historyVars
  <2>3. RequestInv' /\ JobInv' /\ VerdictsAgree'
    BY <1>1, <2>1 DEF RequestInv, JobInv, VerdictsAgree, historyVars
  <2>4. DecisionInv' /\ AgreeInv'
    BY <1>1, <2>1 DEF DecisionInv, AgreeInv, UndecidedRun, RunOpen, Applying, historyVars
  <2>5. LockInv'
    BY <1>0, <1>3, <2>1, ScanAssumption DEF LockInv, Undecided, UndecidedRun, RunOpen
  <2> QED
    BY <2>2, <2>3, <2>4, <2>5
<1>4. CASE ~Undecided(w)
  <2>1. Resumes(w, "finishing", "idle") /\ UNCHANGED lock
    BY <1>4
  <2>2. /\ at' \in [Attempts -> Steps] /\ verdict' \in [Attempts -> Verdicts \cup {None}]
        /\ at'[w] \in {"idle", "purging", "stamping"}
        /\ \A q \in Attempts : q # w => at'[q] = at[q] /\ verdict'[q] = verdict[q]
        /\ Follows(w)
    BY <1>1, <2>1, ResumesFollows DEF Steps, Applying
  <2>3. TypeOK'
    BY <1>2, <2>1, <2>2 DEF TypeOK, historyVars
  <2>4. JobGoesOn
    BY <1>1 DEF JobGoesOn, JobInv
  <2> QED
    BY <1>0, <1>1, <2>1, <2>2, <2>3, <2>4, QuietAttempt
<1> QED
  BY <1>3, <1>4

\* The file is withdrawn while nobody can decide, and then the run is closed.
LEMMA WithdrawStep == ASSUME ScanInv, NEW w \in Attempts, Withdraw(w) \/ Seal(w) PROVE ScanInv'
<1> USE DEF ScanInv, Withdraw, Seal, Go
<1>0. at[w] \in {"withdrawing", "sealing"} /\ lock = w /\ UndecidedRun /\ job.status # "none"
  BY JobExists, ScanAssumption DEF LockInv
<1>1. /\ ~blocked /\ art.status # "ready" /\ art.pii # "scanned"
      /\ \A q \in Attempts : at[q] \notin Applying /\ (q # w => at[q] \notin {"withdrawing", "sealing"})
  BY <1>0 DEF DecisionInv, LockInv
<1>2. /\ \A q \in Attempts : q # w => at'[q] = at[q]
      /\ at' \in [Attempts -> Steps]
      /\ (at'[w] = "sealing" /\ lock' = lock) \/ (at'[w] = "idle" /\ lock' = None)
      /\ UNCHANGED <<up, bytes, job, role, verdict, historyVars>>
  BY DEF TypeOK, Steps
<1>3. /\ art' \in [status : {"pending", "ready", "failed"}, pii : {"none", "pending", "scanned", "blocked", "failed"}]
      /\ art'.status # "ready" /\ art'.pii # "scanned"
      /\ at'[w] = "sealing" => art'.pii = "failed"
  BY <1>1, VerdictType DEF TypeOK
<1>4. /\ run' \in [status : {"none", "pending", "processing", "completed", "blocked", "failed"},
                   decision : Verdicts \cup {None}]
      /\ run'.decision = None
      /\ \/ run' = run
         \/ run'.status = "failed" /\ at'[w] = "idle" /\ art' = art /\ at[w] = "sealing"
  BY <1>0 DEF TypeOK, RunStatus, UndecidedRun
<1>5. faults' \in 0..MaxFaults
  BY FaultType DEF TypeOK
<1>6. TypeOK'
  BY <1>0, <1>2, <1>3, <1>4, <1>5 DEF TypeOK, historyVars
<1>7. RequestInv' /\ JobInv'
  <2>1. up \in {"done", "left", "closing", "closingDetail", "closingRun"}
    BY <1>0 DEF RequestInv
  <2> QED
    BY <1>0, <1>2, <2>1 DEF RequestInv, JobInv, historyVars
<1>8. DecisionInv' /\ LockInv'
  <2>1. run'.status \notin {"completed", "blocked"}
    BY <1>0, <1>4 DEF UndecidedRun, RunOpen
  <2>2. DecisionInv'
    BY <1>0, <1>1, <1>2, <1>3, <1>4, <2>1 DEF DecisionInv, UndecidedRun, Applying, historyVars
  <2>3. LockInv'
    BY <1>0, <1>1, <1>2, <1>4, ScanAssumption DEF LockInv, UndecidedRun, RunOpen
  <2> QED
    BY <2>2, <2>3
<1>9. AgreeInv' /\ VerdictsAgree'
  <2>1. AgreeInv'
    BY <1>0, <1>1, <1>2, <1>3 DEF AgreeInv, Applying, historyVars
  <2>2. ~disputed /\ run'.status = "failed" => art'.pii = "failed"
    BY <1>0, <1>4 DEF AgreeInv, UndecidedRun, RunOpen
  <2>3. run'.status \notin {"completed", "blocked"}
    BY <1>0, <1>4 DEF UndecidedRun, RunOpen
  <2> QED
    BY <1>2, <2>1, <2>2, <2>3 DEF VerdictsAgree, historyVars
<1> QED
  BY <1>6, <1>7, <1>8, <1>9

-----------------------------------------------------------------------------
(* The theorems                                                            *)

\* The inductive invariant holds at the start, and every step preserves it.
THEOREM ScanCorrect == Spec => []ScanInv
<1>1. Init => ScanInv
  <2>1. Init => TypeOK
    <3> SUFFICES ASSUME Init PROVE TypeOK
      OBVIOUS
    <3>1. /\ art \in [status : {"pending", "ready", "failed"}, pii : {"none", "pending", "scanned", "blocked", "failed"}]
          /\ bytes \in {"stored", "purged"}
          /\ run \in [status : {"none", "pending", "processing", "completed", "blocked", "failed"},
                      decision : Verdicts \cup {None}]
      BY DEF Init
    <3>2. job \in JobRows /\ faults \in 0..MaxFaults
      BY ScanAssumption DEF Init, JobRows
    <3>3. /\ at \in [Attempts -> Steps] /\ role \in [Attempts -> {"job", "recovery"}]
          /\ verdict \in [Attempts -> Verdicts \cup {None}] /\ lock \in Attempts \cup {None}
      BY DEF Init, Steps
    <3>4. {blocked, disputed} \subseteq BOOLEAN
      BY DEF Init
    <3> QED
      BY <3>1, <3>2, <3>3, <3>4 DEF TypeOK, JobRows
  <2>2. Init => RequestInv /\ JobInv
    BY DEF Init, RequestInv, JobInv
  <2>3. Init => DecisionInv /\ LockInv
    BY ScanAssumption DEF Init, DecisionInv, UndecidedRun, RunOpen, LockInv, Applying
  <2>4. Init => AgreeInv /\ VerdictsAgree
    BY DEF Init, AgreeInv, VerdictsAgree
  <2> QED
    BY <2>1, <2>2, <2>3, <2>4 DEF ScanInv
<1>2. ScanInv /\ [Next]_vars => ScanInv'
  <2> SUFFICES ASSUME ScanInv, [Next]_vars PROVE ScanInv'
    OBVIOUS
  <2>1. CASE UploadStep \/ Leave
    BY <2>1, RequestStep, QueueStep, CloseStep, LeaveStep DEF UploadStep, Requested
  <2>2. ASSUME NEW w \in Attempts, AttemptStep(w) PROVE ScanInv'
    BY <2>2, ReadStep, OpenStep, DecideStep, RecordStep, StampStep, CloseRunStep, JobStep, FinishStep, WithdrawStep
       DEF AttemptStep
  <2>3. ASSUME NEW w \in Attempts, Claim(w) \/ Recover(w) \/ Crash(w) PROVE ScanInv'
    BY <2>3, JobStep, CrashStep
  <2>4. CASE UNCHANGED vars
    BY <2>4 DEF vars, attemptVars, historyVars, ScanInv, TypeOK, RequestInv, JobInv, DecisionInv, UndecidedRun, RunOpen,
                LockInv, AgreeInv, VerdictsAgree
  <2> QED
    BY <2>1, <2>2, <2>3, <2>4, SweepStep DEF Next
<1> QED
  BY <1>1, <1>2, PTL DEF Spec

\* Whatever attempt, retry, recovery or failed request of PiiScanJobHandler and the upload
\* route writes its rows, a file that was to be blocked is not eligible afterwards.
THEOREM BlockedIsWithheldHolds == Spec => []BlockedIsWithheld
<1>1. ScanInv => BlockedIsWithheld
  BY DEF ScanInv, DecisionInv, BlockedIsWithheld, Eligible
<1> QED
  BY <1>1, ScanCorrect, PTL

\* The rows keep their shape, and the run of a queued scan closes with what its file says.
THEOREM ScanInvariantHolds == Spec => []ScanInvariant
<1>1. ScanInv => ScanInvariant
  BY DEF ScanInv, ScanInvariant
<1> QED
  BY <1>1, ScanCorrect, PTL
=============================================================================
