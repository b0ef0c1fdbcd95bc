---------------------------- MODULE TurnMessage ----------------------------
(***************************************************************************)
(* The assistant message of a turn and everyone who writes its row: the    *)
(* AG-UI stream writer (checkpoints on a timer, then the final status),    *)
(* the admission and the sweep that close an expired lease, the shutdown   *)
(* and the sweep of stale rows.                                            *)
(*                                                                         *)
(* One session.  Each turn runs in a replica of its own, which may crash.  *)
(* The lease is the row of ExecutionLease without its clock: "expired" is  *)
(* an active row whose time is over.  Text is the number of deltas so far. *)
(***************************************************************************)
EXTENDS Naturals, TurnIds

CONSTANTS
  NoTurn,
  MaxText      \* bound: deltas of a turn

ASSUME TurnAssumption == NoTurn \notin Turns
ASSUME TextAssumption == MaxText \in Nat

VARIABLES
  lease,       \* the row of session_executions
  uncovered,   \* the turns whose row was created after the lease expired
  row,         \* the assistant rows of messages
  old,         \* the rows not updated for the deadline of the stale sweep
  pc,          \* per turn: where streamAssistantReplyAGUI is
  text,        \* per turn: turn.assistantText
  cp,          \* per turn: checkpointInFlight
  cpText,      \* per turn: the text that checkpoint writes
  outcome,     \* per turn: the outcome it saves and then tells the client
  saved,       \* the turns whose outcome was saved (finalized.persisted)
  late,        \* history: a checkpoint outlived the drain of the turn
  swept        \* history: the turns whose row the sweep of leases closed

leaseVars == <<lease, uncovered>>
rowVars == <<row, old>>
cpVars == <<cp, cpText>>
turnVars == <<pc, text, outcome, saved>>
vars == <<leaseVars, rowVars, cpVars, turnVars, late, swept>>

Mid == {"pending", "streaming"}
Outcomes == {"completed", "error", "interrupted"}

Init ==
  /\ lease = [turn |-> NoTurn, status |-> "none"]
  /\ uncovered = {}
  /\ row = [t \in Turns |-> [status |-> "absent", text |-> 0]]
  /\ old = {}
  /\ pc = [t \in Turns |-> "idle"]
  /\ text = [t \in Turns |-> 0]
  /\ cp = [t \in Turns |-> "none"]
  /\ cpText = [t \in Turns |-> 0]
  /\ outcome = [t \in Turns |-> "none"]
  /\ saved = {}
  /\ late = {}
  /\ swept = {}

-----------------------------------------------------------------------------
(* Writes to messages                                                      *)

\* updateContent has no condition on the status it replaces.
UpdateContent(t, status, n) ==
  /\ row' = [row EXCEPT ![t] = [status |-> status, text |-> n]]
  /\ old' = old \ {t}

MidRows == {t \in Turns : row[t].status \in Mid}

Interrupt(S) ==
  /\ row' = [t \in Turns |-> IF t \in S THEN [row[t] EXCEPT !.status = "interrupted"] ELSE row[t]]
  /\ old' = old \ S

-----------------------------------------------------------------------------
(* The lease, as far as messages depend on it                              *)

\* acquire finishes an expired generation, with its messages, before it replaces it.
Acquire(t) ==
  /\ pc[t] = "idle" /\ lease.status # "active"
  /\ Interrupt(IF lease.status = "expired" THEN MidRows \ uncovered ELSE {})
  /\ lease' = [turn |-> t, status |-> "active"]
  /\ uncovered' = {}
  /\ pc' = [pc EXCEPT ![t] = "admitted"]
  /\ UNCHANGED <<cpVars, text, outcome, saved, late, swept>>

ExpireLease ==
  /\ lease.status = "active"
  /\ lease' = [lease EXCEPT !.status = "expired"]
  /\ UNCHANGED <<uncovered, rowVars, cpVars, turnVars, late, swept>>

SweepExpired ==
  /\ lease.status = "expired"
  /\ lease' = [lease EXCEPT !.status = "stopped"]
  /\ Interrupt(MidRows \ uncovered)
  /\ swept' = swept \cup (MidRows \ uncovered)
  /\ UNCHANGED <<uncovered, cpVars, turnVars, late>>

\* Stop or a revocation.
StopLease ==
  /\ lease.status = "active"
  /\ lease' = [lease EXCEPT !.status = "stopped"]
  /\ UNCHANGED <<uncovered, rowVars, cpVars, turnVars, late, swept>>

Releases(t) ==
  lease' = IF lease.turn = t /\ lease.status \in {"active", "expired"}
           THEN [lease EXCEPT !.status = "finished"] ELSE lease

InProgress == {"setup", "streaming", "draining", "finishing", "retrying"}

\* onLost releases the admission and does not wait for the runtime to abort.
LoseLease(t) ==
  /\ pc[t] \in InProgress
  /\ lease.turn = t /\ lease.status \in {"active", "expired"}
  /\ Releases(t)
  /\ UNCHANGED <<uncovered, rowVars, cpVars, turnVars, late, swept>>

-----------------------------------------------------------------------------
(* The stream writer                                                       *)

CreateRow(t) ==
  /\ pc[t] = "admitted"
  /\ row' = [row EXCEPT ![t] = [status |-> "pending", text |-> 0]]
  /\ uncovered' = IF lease.status = "expired" THEN uncovered \cup {t} ELSE uncovered
  /\ pc' = [pc EXCEPT ![t] = "setup"]
  /\ UNCHANGED <<lease, old, cpVars, text, outcome, saved, late, swept>>

\* A failure before the row exists has no transcript to finalize.
CreateFails(t) ==
  /\ pc[t] = "admitted"
  /\ pc' = [pc EXCEPT ![t] = "settling"]
  /\ outcome' = [outcome EXCEPT ![t] = "error"]
  /\ UNCHANGED <<leaseVars, rowVars, cpVars, text, saved, late, swept>>

StartStream(t) ==
  /\ pc[t] = "setup"
  /\ pc' = [pc EXCEPT ![t] = "streaming"]
  /\ UNCHANGED <<leaseVars, rowVars, cpVars, text, outcome, saved, late, swept>>

SetupFails(t) ==
  /\ pc[t] = "setup"
  /\ \E o \in {"error", "interrupted"} : outcome' = [outcome EXCEPT ![t] = o]
  /\ pc' = [pc EXCEPT ![t] = "draining"]
  /\ UNCHANGED <<leaseVars, rowVars, cpVars, text, saved, late, swept>>

Delta(t) ==
  /\ pc[t] = "streaming" /\ text[t] < MaxText
  /\ text' = [text EXCEPT ![t] = @ + 1]
  /\ UNCHANGED <<leaseVars, rowVars, cpVars, pc, outcome, saved, late, swept>>

\* The timer.  A write slower than the interval does not stack up behind it.
CheckpointSend(t) ==
  /\ pc[t] = "streaming" /\ cp[t] = "none"
  /\ cp' = [cp EXCEPT ![t] = "sent"]
  /\ cpText' = [cpText EXCEPT ![t] = text[t]]
  /\ UNCHANGED <<leaseVars, rowVars, turnVars, late, swept>>

\* The UPDATE has no cancellation: it takes effect whatever became of its turn.
CheckpointLand(t) ==
  /\ cp[t] = "sent"
  /\ UpdateContent(t, "streaming", cpText[t])
  /\ cp' = [cp EXCEPT ![t] = "landed"]
  /\ UNCHANGED <<leaseVars, cpText, turnVars, late, swept>>

CheckpointSettle(t) ==
  /\ cp[t] \in {"sent", "landed"}
  /\ cp' = [cp EXCEPT ![t] = "none"]
  /\ cpText' = [cpText EXCEPT ![t] = 0]
  /\ UNCHANGED <<leaseVars, rowVars, turnVars, late, swept>>

\* The stream ends with the outcome its events tell, or with a throw.
EndStream(t) ==
  /\ pc[t] = "streaming"
  /\ \E o \in Outcomes : outcome' = [outcome EXCEPT ![t] = o]
  /\ pc' = [pc EXCEPT ![t] = "draining"]
  /\ UNCHANGED <<leaseVars, rowVars, cpVars, text, saved, late, swept>>

\* settleCheckpoints: the timer is off, and the write in flight is awaited.
DrainSkipped(t) == pc[t] = "draining"
Drained(t) == pc[t] = "draining" /\ cp[t] = "none"

Drain(t) ==
  /\ Drained(t)
  /\ pc' = [pc EXCEPT ![t] = "finishing"]
  /\ UNCHANGED <<leaseVars, rowVars, cpVars, text, outcome, saved, late, swept>>

\* CHECKPOINT_DRAIN_DEADLINE_MS.
DeadlineAfterLanding(t) == pc[t] = "draining" /\ cp[t] = "landed"
DeadlinePasses(t) == pc[t] = "draining" /\ cp[t] # "none"

DrainDeadline(t) ==
  /\ DeadlinePasses(t)
  /\ pc' = [pc EXCEPT ![t] = "finishing"]
  /\ late' = IF cp[t] = "sent" THEN late \cup {t} ELSE late
  /\ UNCHANGED <<leaseVars, rowVars, cpVars, text, outcome, saved, swept>>

\* A status write that reports failure may have taken effect all the same.
FinalWrite(t) ==
  /\ pc[t] = "finishing"
  /\ \/ /\ UpdateContent(t, outcome[t], text[t])
        /\ saved' = saved \cup {t}
        /\ pc' = [pc EXCEPT ![t] = "settling"]
     \/ /\ UpdateContent(t, outcome[t], text[t]) \/ UNCHANGED rowVars
        /\ pc' = [pc EXCEPT ![t] = "retrying"]
        /\ UNCHANGED saved
  /\ UNCHANGED <<leaseVars, cpVars, text, outcome, late, swept>>

\* The second attempt never saves, or reports, success.
SameOutcome(o) == o
FailureOutcome(o) == IF o = "completed" THEN "error" ELSE o

FailureWrite(t) ==
  LET o == FailureOutcome(outcome[t])
  IN /\ pc[t] = "retrying"
     /\ outcome' = [outcome EXCEPT ![t] = o]
     /\ UpdateContent(t, o, text[t]) \/ UNCHANGED rowVars
     /\ pc' = [pc EXCEPT ![t] = "settling"]
     /\ UNCHANGED <<leaseVars, cpVars, text, saved, late, swept>>

\* onTurnSettled is releaseAdmission, whose release may fail and is then logged.
Settle(t) ==
  /\ pc[t] = "settling"
  /\ Releases(t) \/ UNCHANGED lease
  /\ pc' = [pc EXCEPT ![t] = "reporting"]
  /\ UNCHANGED <<uncovered, rowVars, cpVars, text, outcome, saved, late, swept>>

\* The terminal event is written.
Report(t) ==
  /\ pc[t] = "reporting"
  /\ pc' = [pc EXCEPT ![t] = "done"]
  /\ UNCHANGED <<leaseVars, rowVars, cpVars, text, outcome, saved, late, swept>>

Told(t, o) == pc[t] = "done" /\ outcome[t] = o

-----------------------------------------------------------------------------
(* Crashes, shutdown and the sweep of stale rows                           *)

Crash(t) ==
  /\ pc[t] \notin {"idle", "done", "crashed"}
  /\ pc' = [pc EXCEPT ![t] = "crashed"]
  /\ UNCHANGED <<leaseVars, rowVars, cpVars, text, outcome, saved, late, swept>>

\* preClose marks the turns it could not drain.
ShutdownMark(t) ==
  /\ pc[t] \in InProgress /\ t \in MidRows
  /\ Interrupt({t})
  /\ UNCHANGED <<leaseVars, cpVars, turnVars, late, swept>>

\* The deadline is hundreds of checkpoint intervals: the row of a stream that
\* checkpoints does not grow old.
Age(t) ==
  /\ t \in MidRows \ old
  /\ pc[t] \notin {"streaming", "draining"}
  /\ old' = old \cup {t}
  /\ UNCHANGED <<leaseVars, row, cpVars, turnVars, late, swept>>

StaleStreaming(t) == t \in old /\ row[t].status = "streaming"
Stale(t) == t \in old /\ t \in MidRows

SweepStale(t) ==
  /\ Stale(t)
  /\ Interrupt({t})
  /\ UNCHANGED <<leaseVars, cpVars, turnVars, late, swept>>

-----------------------------------------------------------------------------
WriterStep(t) ==
  \/ CreateRow(t) \/ CreateFails(t) \/ StartStream(t) \/ SetupFails(t)
  \/ Delta(t) \/ CheckpointSend(t) \/ CheckpointLand(t) \/ CheckpointSettle(t)
  \/ EndStream(t) \/ Drain(t) \/ DrainDeadline(t)
  \/ FinalWrite(t) \/ FailureWrite(t) \/ Settle(t) \/ Report(t)

Next ==
  \/ \E t \in Turns : Acquire(t) \/ LoseLease(t) \/ WriterStep(t)
  \/ ExpireLease \/ SweepExpired \/ StopLease
  \/ \E t \in Turns : Crash(t) \/ ShutdownMark(t) \/ Age(t) \/ SweepStale(t)

Spec == Init /\ [][Next]_vars

\* A turn past its stream goes on, time passes and the sweep runs.  Nothing is
\* assumed of a checkpoint in flight, which may hang for ever.
Fairness ==
  \A t \in Turns :
    /\ WF_vars(Drain(t)) /\ WF_vars(DrainDeadline(t))
    /\ WF_vars(FinalWrite(t)) /\ WF_vars(FailureWrite(t))
    /\ WF_vars(Settle(t)) /\ WF_vars(Report(t))
    /\ WF_vars(Age(t)) /\ WF_vars(SweepStale(t))

LiveSpec == Spec /\ Fairness

-----------------------------------------------------------------------------
(* Properties                                                              *)

\* The shape of the state.
TypeOK ==
  /\ lease \in [turn : Turns \cup {NoTurn},
                status : {"none", "active", "expired", "stopped", "finished"}]
  /\ uncovered \subseteq Turns
  /\ row \in [Turns -> [status : Mid \cup Outcomes \cup {"absent"}, text : 0..MaxText]]
  /\ old \subseteq Turns
  /\ pc \in [Turns -> InProgress \cup {"idle", "admitted", "settling", "reporting", "done", "crashed"}]
  /\ text \in [Turns -> 0..MaxText]
  /\ cp \in [Turns -> {"none", "sent", "landed"}]
  /\ cpText \in [Turns -> 0..MaxText]
  /\ outcome \in [Turns -> Outcomes \cup {"none"}]
  /\ saved \subseteq Turns
  /\ late \subseteq Turns
  /\ swept \subseteq Turns

\* A saved outcome stays, with the whole text: no checkpoint, admission, sweep or
\* shutdown writes over it, unless a checkpoint outlived the drain deadline.
FinalIsFinal ==
  \A t \in saved \ late : row[t] = [status |-> outcome[t], text |-> text[t]]

\* The client is told of success only when success was saved, through write
\* failures of which some took effect.
SuccessIsSaved ==
  \A t \in Turns : Told(t, "completed") => t \in saved /\ (t \in late \/ row[t].status = "completed")

\* The state has its shape, and success is never told without being saved.
MessageInvariant == TypeOK /\ SuccessIsSaved

\* A turn past its stream ends even when its checkpoint never settles.
TurnSettles ==
  \A t \in Turns : (pc[t] = "draining") ~> (pc[t] \in {"done", "crashed"})

\* No row stays mid-turn for good once its turn is over or its process is dead,
\* although a last checkpoint may still land.
AbandonedRowSettles ==
  \A t \in Turns : (pc[t] \in {"done", "crashed"}) ~> [](row[t].status \notin Mid)

\* "Expired leases cannot belong to a live turn": what the sweep of expired leases
\* closed does not come back to life.
SweptStaysEnded == \A t \in swept : row[t].status \notin Mid
=============================================================================
