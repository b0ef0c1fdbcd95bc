---------------------------- MODULE ApprovalFlow ----------------------------
(***************************************************************************)
(* Human approval of tool calls in one session: the approvals table, the   *)
(* coordinator of each replica with its in-memory waits, the decisions of  *)
(* the user, which may arrive at a replica other than the one that waits,  *)
(* and the gateway that claims an approval before it dispatches a call.    *)
(*                                                                         *)
(* The lease is the single row of session_executions.  A runtime is named  *)
(* after the turn that created it; a later turn of the same replica may    *)
(* reuse it.  Every turn has an execution, so every wait needs a committed *)
(* decision (requiresDurableProof).                                        *)
(***************************************************************************)
EXTENDS Naturals, FiniteSets

CONSTANTS
  Turns,
  NoTurn,
  Replicas,
  Policy,      \* Policy Center approvals: any turn may ask again for the same row
  Native,      \* native approvals: asked once, by one turn
  Deciders,    \* bound: requests to decide an approval
  Calls        \* bound: tool calls that present an approval to the gateway

Approvals == Policy \cup Native
None == "none"

ASSUME ApprovalAssumption == NoTurn \notin Turns /\ Policy \cap Native = {}

VARIABLES
  exec,      \* the row of session_executions: generation, status, runtime
  bound,     \* per replica: the turn bound to the warm session, or NoTurn
  turn,      \* per turn: its life in the adapter
  host,      \* per turn: its replica
  rt,        \* per turn: its runtime
  row,       \* the approvals table
  overdue,   \* the approvals whose expires_at is over for the database
  req,       \* per turn and approval: where ApprovalCoordinator.request is
  outcome,   \* per turn and approval: what request returned
  persisted, \* per turn: the approvals it registered
  expiring,  \* the approvals that an unawaited expireApprovalById will expire
  dec,       \* per decider: where ApprovalCoordinator.decide is
  call       \* per call: where the gateway is with it

turnVars == <<exec, bound, turn, host, rt>>
waitVars == <<req, outcome, persisted>>
vars == <<turnVars, row, overdue, waitVars, expiring, dec, call>>

Decisions == {"approve", "reject"}
Stored == {"approved", "rejected", "expired"}
StoredOutcome == [approved |-> "approve", rejected |-> "reject", expired |-> "expired"]

Init ==
  /\ exec = [turn |-> NoTurn, status |-> None, rt |-> NoTurn]
  /\ bound = [r \in Replicas |-> NoTurn]
  /\ turn = [t \in Turns |-> "idle"]
  /\ host \in [Turns -> Replicas]
  /\ rt = [t \in Turns |-> NoTurn]
  /\ row = [a \in Approvals |-> [status |-> "absent", rt |-> NoTurn, by |-> NoTurn, consumed |-> FALSE]]
  /\ overdue = {}
  /\ req = [t \in Turns |-> [a \in Approvals |-> None]]
  /\ outcome = [t \in Turns |-> [a \in Approvals |-> None]]
  /\ persisted = [t \in Turns |-> {}]
  /\ expiring = {}
  /\ dec = [d \in Deciders |-> [pc |-> "idle"]]
  /\ call = [c \in Calls |-> [pc |-> "idle"]]

-----------------------------------------------------------------------------
(* The execution row and its trigger                                       *)

\* FOR SHARE OF e: a create between its check and its commit holds off every
\* writer of the execution row.
ExecUnlocked == TRUE
ExecFree == \A t \in Turns, a \in Approvals : req[t][a] # "inserting"

Live(runtime) == exec.status = "active" /\ exec.rt = runtime

\* stopped_execution_approvals: a status other than active expires what is
\* pending for the runtime of the row.
PendingOf(runtime) == {a \in Approvals : row[a].status = "pending" /\ row[a].rt = runtime}

Expired(S) == [a \in Approvals |-> IF a \in S THEN [row[a] EXCEPT !.status = "expired"] ELSE row[a]]

Acquire(t) ==
  /\ turn[t] = "idle" /\ exec.status # "active" /\ ExecFree
  /\ row' = IF exec.status = "lapsed" THEN Expired(PendingOf(exec.rt)) ELSE row
  /\ exec' = [turn |-> t, status |-> "active", rt |-> NoTurn]
  /\ turn' = [turn EXCEPT ![t] = "admitted"]
  /\ UNCHANGED <<bound, host, rt, overdue, waitVars, expiring, dec, call>>

\* A warm session of the replica keeps its runtime, else the turn creates one.
\* activeTurns refuses a second turn beside one that has not gone through its finally.
Bind(t) ==
  /\ turn[t] = "admitted" /\ exec.turn = t /\ exec.status = "active" /\ ExecFree
  /\ \A u \in Turns : host[u] = host[t] => turn[u] \notin {"open", "aborted"}
  /\ LET warm == bound[host[t]]
         runtime == IF warm = NoTurn THEN t ELSE rt[warm]
     IN /\ rt' = [rt EXCEPT ![t] = runtime]
        /\ exec' = [exec EXCEPT !.rt = runtime]
  /\ bound' = [bound EXCEPT ![host[t]] = t]
  /\ turn' = [turn EXCEPT ![t] = "open"]
  /\ UNCHANGED <<host, row, overdue, waitVars, expiring, dec, call>>

LeaseLapses ==
  /\ exec.status = "active"
  /\ exec' = [exec EXCEPT !.status = "lapsed"]
  /\ UNCHANGED <<bound, turn, host, rt, row, overdue, waitVars, expiring, dec, call>>

\* A stop, a revocation, the sweep of expired leases, or the release by its turn.
EndExecution ==
  /\ exec.status \in {"active", "lapsed"} /\ ExecFree
  /\ exec' = [exec EXCEPT !.status = "ended"]
  /\ row' = Expired(PendingOf(exec.rt))
  /\ UNCHANGED <<bound, turn, host, rt, overdue, waitVars, expiring, dec, call>>

Overdue(a) ==
  /\ row[a].status # "absent" /\ a \notin overdue
  /\ overdue' = overdue \cup {a}
  /\ UNCHANGED <<turnVars, row, waitVars, expiring, dec, call>>

-----------------------------------------------------------------------------
(* The life of a turn in its replica                                       *)

Waiting(t) == {a \in Approvals : req[t][a] = "waiting"}

\* Every wait in S, a set of turns, settles with a reject.
RejectWaits(S) ==
  /\ req' = [t \in Turns |-> [a \in Approvals |->
       IF t \in S /\ a \in Waiting(t) THEN "settled" ELSE req[t][a]]]
  /\ outcome' = [t \in Turns |-> [a \in Approvals |->
       IF t \in S /\ a \in Waiting(t) THEN "reject" ELSE outcome[t][a]]]

\* The signal of the turn: interrupt, watchdog or loss of its lease.
Abort(t) ==
  /\ turn[t] = "open"
  /\ turn' = [turn EXCEPT ![t] = "aborted"]
  /\ RejectWaits({t})
  /\ UNCHANGED <<exec, bound, host, rt, row, overdue, persisted, expiring, dec, call>>

\* The finally of the turn: cancelAndExpire when it was aborted, else cancelLocal.
Close(t) ==
  /\ turn[t] \in {"admitted", "open", "aborted"}
  /\ turn' = [turn EXCEPT ![t] = "closed"]
  /\ RejectWaits({t})
  /\ IF turn[t] = "aborted"
     THEN /\ expiring' = expiring \cup persisted[t]
          /\ persisted' = [persisted EXCEPT ![t] = {}]
     ELSE UNCHANGED <<expiring, persisted>>
  /\ UNCHANGED <<exec, bound, host, rt, row, overdue, dec, call>>

\* abortSession drops the warm session, its turns and what is pending for its runtime.
AbortSession(r) ==
  /\ bound[r] # NoTurn
  /\ LET runtime == rt[bound[r]]
         mine == {t \in Turns : host[t] = r /\ rt[t] = runtime /\ turn[t] \in {"open", "aborted"}}
     IN /\ turn' = [t \in Turns |-> IF t \in mine THEN "aborted" ELSE turn[t]]
        /\ RejectWaits(mine)
        /\ expiring' = expiring \cup (UNION {persisted[t] : t \in mine}) \cup PendingOf(runtime)
        /\ persisted' = [t \in Turns |-> IF t \in mine THEN {} ELSE persisted[t]]
  /\ bound' = [bound EXCEPT ![r] = NoTurn]
  /\ UNCHANGED <<exec, host, rt, row, overdue, dec, call>>

\* A statement the replica had sent may still take effect, so expiring stays.
Crash(r) ==
  LET dead == {t \in Turns : host[t] = r}
  IN /\ \E t \in dead : turn[t] \in {"admitted", "open", "aborted"}
     /\ turn' = [t \in Turns |-> IF t \in dead /\ turn[t] # "idle" THEN "crashed" ELSE turn[t]]
     /\ req' = [t \in Turns |-> [a \in Approvals |->
          IF t \in dead /\ req[t][a] # None THEN "settled" ELSE req[t][a]]]
     /\ bound' = [bound EXCEPT ![r] = NoTurn]
     /\ UNCHANGED <<exec, host, rt, row, overdue, outcome, persisted, expiring, dec, call>>

-----------------------------------------------------------------------------
(* ApprovalCoordinator.request                                             *)

At(t, a, from, to) ==
  /\ req[t][a] = from
  /\ req' = [req EXCEPT ![t][a] = to]

Settle(t, a, o) ==
  /\ req' = [req EXCEPT ![t][a] = "settled"]
  /\ outcome' = [outcome EXCEPT ![t][a] = o]

Ended(t) == turn[t] # "open"

\* A native request has a fresh identifier.  The proof of a policy request lives in its
\* runtime, which may ask again in a later turn; it reads the row first.
Request(t, a) ==
  /\ turn[t] = "open"
  /\ \A u \in Turns : req[u][a] # None => a \in Policy /\ rt[u] = rt[t]
  /\ At(t, a, None, IF a \in Policy THEN "reading" ELSE "creating")
  /\ UNCHANGED <<turnVars, row, overdue, outcome, persisted, expiring, dec, call>>

ReadFirst(t, a) ==
  /\ req[t][a] = "reading"
  /\ IF row[a].status \in Stored
     THEN Settle(t, a, StoredOutcome[row[a].status])
     ELSE /\ At(t, a, "reading", IF row[a].status = "pending" THEN "created" ELSE "creating")
          /\ UNCHANGED outcome
  /\ UNCHANGED <<turnVars, row, overdue, persisted, expiring, dec, call>>

\* create: the execution is read under a share lock ...
CreateChecks(t, a) ==
  /\ req[t][a] = "creating"
  /\ At(t, a, "creating", IF Live(rt[t]) THEN "inserting" ELSE "failed")
  /\ UNCHANGED <<turnVars, row, overdue, outcome, persisted, expiring, dec, call>>

\* ... which the commit of the new row releases.  The caller may miss the answer.
CreateInserts(t, a) ==
  /\ req[t][a] = "inserting"
  /\ \/ /\ row[a].status = "absent"
        /\ row' = [row EXCEPT ![a] = [status |-> "pending", rt |-> rt[t], by |-> t, consumed |-> FALSE]]
        /\ \E to \in {"created", "failed"} : At(t, a, "inserting", to)
     \/ At(t, a, "inserting", "failed") /\ UNCHANGED row
  /\ UNCHANGED <<turnVars, overdue, outcome, persisted, expiring, dec, call>>

\* A policy request whose create failed takes the row of the winner.
ReadAgain(t, a) ==
  /\ req[t][a] = "failed"
  /\ \/ /\ a \in Policy /\ row[a].status \in Stored
        /\ Settle(t, a, StoredOutcome[row[a].status])
     \/ /\ a \in Policy /\ row[a].status = "pending"
        /\ At(t, a, "failed", "created") /\ UNCHANGED outcome
     \/ /\ a \in Native \/ row[a].status = "absent"
        /\ Settle(t, a, "unavailable")
  /\ UNCHANGED <<turnVars, row, overdue, persisted, expiring, dec, call>>

\* A turn that ended meanwhile expires the row it made.  Publishing the card may fail.
Register(t, a) ==
  /\ req[t][a] = "created"
  /\ persisted' = [persisted EXCEPT ![t] = @ \cup {a}]
  /\ \/ /\ ~Ended(t)
        /\ At(t, a, "created", "waiting")
        /\ UNCHANGED <<outcome, expiring>>
     \/ /\ Settle(t, a, IF Ended(t) THEN "reject" ELSE "unavailable")
        /\ expiring' = expiring \cup {a}
  /\ UNCHANGED <<turnVars, row, overdue, dec, call>>

\* The timer of the replica, whose clock is not the database's.  It does not wait
\* for the row.
TimerWhenRowExpired(t, a) == req[t][a] = "waiting" /\ row[a].status = "expired"
TimerRuns(t, a) == req[t][a] = "waiting"

TtlFires(t, a) ==
  /\ TimerRuns(t, a)
  /\ Settle(t, a, "expired")
  /\ expiring' = expiring \cup {a}
  /\ UNCHANGED <<turnVars, row, overdue, persisted, dec, call>>

Poll(t, a) ==
  /\ req[t][a] = "waiting" /\ ~Ended(t) /\ row[a].status \in Stored
  /\ Settle(t, a, StoredOutcome[row[a].status])
  /\ UNCHANGED <<turnVars, row, overdue, persisted, expiring, dec, call>>

-----------------------------------------------------------------------------
(* Writers of the approvals table                                          *)

\* expireApprovalById is best effort: an error is logged.
ExpireById(a) ==
  /\ a \in expiring
  /\ expiring' = expiring \ {a}
  /\ \/ row[a].status = "pending" /\ row' = Expired({a})
     \/ UNCHANGED row
  /\ UNCHANGED <<turnVars, overdue, waitVars, dec, call>>

SweepableOfEnded(a) == row[a].status = "pending" /\ a \in overdue /\ exec.status # "active"
Sweepable(a) == row[a].status = "pending" /\ a \in overdue

SweepExpired ==
  /\ \E a \in Approvals : Sweepable(a)
  /\ row' = Expired({a \in Approvals : Sweepable(a)})
  /\ UNCHANGED <<turnVars, overdue, waitVars, expiring, dec, call>>

-----------------------------------------------------------------------------
(* ApprovalCoordinator.decide and ApprovalStore.resolve                    *)

WaitsAt(r, a) == {t \in Turns : host[t] = r /\ req[t][a] = "waiting"}

\* validateLocalDecision: the execution of the warm session is still current.
Current(r) == bound[r] # NoTurn /\ exec.turn = bound[r] /\ Live(rt[bound[r]])

SetDec(d, value) == dec' = [dec EXCEPT ![d] = value]

\* The waits of this replica are re-checked before anything is written.
DecideStarts(d, r, a, choice) ==
  /\ dec[d].pc = "idle" /\ row[a].status # "absent"
  /\ LET eligible == IF Current(r) THEN WaitsAt(r, a) ELSE {}
     IN SetDec(d, IF WaitsAt(r, a) # {} /\ eligible = {}
                  THEN [pc |-> "missing"]
                  ELSE [pc |-> "resolving", at |-> r, a |-> a, choice |-> choice, eligible |-> eligible])
  /\ UNCHANGED <<turnVars, row, overdue, waitVars, expiring, call>>

Resolvable(a) == row[a].status = "pending" /\ a \notin overdue /\ Live(row[a].rt)

\* The statement of resolve reads its snapshot ...
ResolveReads(d) ==
  /\ dec[d].pc = "resolving"
  /\ SetDec(d, IF Resolvable(dec[d].a) THEN [dec[d] EXCEPT !.pc = "locking"] ELSE [pc |-> "missing"])
  /\ UNCHANGED <<turnVars, row, overdue, waitVars, expiring, call>>

StillPending(a) == row[a].status = "pending"

\* ... and once it holds the row it reads the row again, not the execution.  The
\* caller may miss the answer.
ResolveWrites(d) ==
  /\ dec[d].pc = "locking"
  /\ IF StillPending(dec[d].a)
     THEN /\ row' = [row EXCEPT ![dec[d].a].status = IF dec[d].choice = "approve" THEN "approved" ELSE "rejected"]
          /\ SetDec(d, [dec[d] EXCEPT !.pc = "settling"]) \/ SetDec(d, [pc |-> "error"])
     ELSE SetDec(d, [pc |-> "missing"]) /\ UNCHANGED row
  /\ UNCHANGED <<turnVars, overdue, waitVars, expiring, call>>

SettlesEarly(d) == dec[d].pc \in {"resolving", "settling"}
Settles(d) == dec[d].pc = "settling"

\* settleEligible: only waits that still stand, and while the session is warm.
DecideSettles(d) ==
  /\ Settles(d)
  /\ LET a == dec[d].a
         now == IF bound[dec[d].at] = NoTurn THEN {} ELSE {t \in dec[d].eligible : req[t][a] = "waiting"}
     IN /\ req' = [t \in Turns |-> IF t \in now THEN [req[t] EXCEPT ![a] = "settled"] ELSE req[t]]
        /\ outcome' = [t \in Turns |-> IF t \in now THEN [outcome[t] EXCEPT ![a] = dec[d].choice] ELSE outcome[t]]
  /\ SetDec(d, [pc |-> "resolved"])
  /\ UNCHANGED <<turnVars, row, overdue, persisted, expiring, call>>

-----------------------------------------------------------------------------
(* The gateway                                                             *)

\* The graph calls the tool when its wait said approve, and may call it again.
CallTool(c, t, a) ==
  /\ call[c].pc = "idle" /\ a \in Policy
  /\ turn[t] = "open" /\ outcome[t][a] = "approve"
  /\ call' = [call EXCEPT ![c] = [pc |-> "called", t |-> t, a |-> a]]
  /\ UNCHANGED <<turnVars, row, overdue, waitVars, expiring, dec>>

MatchesAnyTurn(c) == row[call[c].a].status = "approved"

\* The proof of the row names the tool context of the turn that created it.
Matches(c) == row[call[c].a].status = "approved" /\ row[call[c].a].by = call[c].t

GateReads(c) ==
  /\ call[c].pc = "called"
  /\ call' = [call EXCEPT ![c].pc = IF Matches(c) THEN "claiming" ELSE "refused"]
  /\ UNCHANGED <<turnVars, row, overdue, waitVars, expiring, dec>>

ClaimableByAll(a) == row[a].status = "approved"
Claimable(a) == row[a].status = "approved" /\ ~row[a].consumed

GateClaims(c) ==
  /\ call[c].pc = "claiming"
  /\ IF Claimable(call[c].a)
     THEN /\ row' = [row EXCEPT ![call[c].a].consumed = TRUE]
          /\ \E to \in {"dispatched", "refused"} : call' = [call EXCEPT ![c].pc = to]
     ELSE /\ call' = [call EXCEPT ![c].pc = "refused"]
          /\ UNCHANGED row
  /\ UNCHANGED <<turnVars, overdue, waitVars, expiring, dec>>

-----------------------------------------------------------------------------
RequestStep(t, a) ==
  \/ Request(t, a) \/ ReadFirst(t, a) \/ CreateChecks(t, a) \/ CreateInserts(t, a)
  \/ ReadAgain(t, a) \/ Register(t, a) \/ TtlFires(t, a) \/ Poll(t, a)

Next ==
  \/ \E t \in Turns : Acquire(t) \/ Bind(t) \/ Abort(t) \/ Close(t)
  \/ LeaseLapses \/ EndExecution
  \/ \E r \in Replicas : AbortSession(r) \/ Crash(r)
  \/ \E t \in Turns, a \in Approvals : RequestStep(t, a)
  \/ \E a \in Approvals : Overdue(a) \/ ExpireById(a)
  \/ SweepExpired
  \/ \E d \in Deciders :
       \/ \E r \in Replicas, a \in Approvals, choice \in Decisions : DecideStarts(d, r, a, choice)
       \/ ResolveReads(d) \/ ResolveWrites(d) \/ DecideSettles(d)
  \/ \E c \in Calls :
       \/ \E t \in Turns, a \in Approvals : CallTool(c, t, a)
       \/ GateReads(c) \/ GateClaims(c)

Spec == Init /\ [][Next]_vars

\* Timers fire, time passes, and the sweep runs.  Nothing is assumed of a poll, of a
\* decision or of the unawaited expiry.
Fairness ==
  /\ \A t \in Turns, a \in Approvals : WF_vars(TtlFires(t, a))
  /\ \A a \in Approvals : WF_vars(Overdue(a))
  /\ WF_vars(SweepExpired)

LiveSpec == Spec /\ Fairness

-----------------------------------------------------------------------------
(* Properties                                                              *)

Row == [status : Stored \cup {"absent", "pending"}, rt : Turns \cup {NoTurn},
        by : Turns \cup {NoTurn}, consumed : BOOLEAN]
Places == {None, "reading", "creating", "inserting", "created", "failed", "waiting", "settled"}
Outcomes == Decisions \cup {None, "expired", "unavailable"}
Decision == [pc : {"resolving", "locking", "settling"}, at : Replicas, a : Approvals,
             choice : Decisions, eligible : SUBSET Turns]
DecisionStates == [pc : {"idle", "missing", "resolved", "error"}] \cup Decision
ToolCall == [pc : {"called", "claiming", "dispatched", "refused"}, t : Turns, a : Approvals]
CallStates == [pc : {"idle"}] \cup ToolCall

\* The shape of the state.
TypeOK ==
  /\ exec \in [turn : Turns \cup {NoTurn}, status : {None, "active", "lapsed", "ended"},
               rt : Turns \cup {NoTurn}]
  /\ bound \in [Replicas -> Turns \cup {NoTurn}]
  /\ turn \in [Turns -> {"idle", "admitted", "open", "aborted", "closed", "crashed"}]
  /\ host \in [Turns -> Replicas]
  /\ rt \in [Turns -> Turns \cup {NoTurn}]
  /\ row \in [Approvals -> Row]
  /\ overdue \subseteq Approvals /\ expiring \subseteq Approvals
  /\ req \in [Turns -> [Approvals -> Places]]
  /\ outcome \in [Turns -> [Approvals -> Outcomes]]
  /\ persisted \in [Turns -> SUBSET Approvals]
  /\ dec \in [Deciders -> DecisionStates]
  /\ call \in [Calls -> CallStates]

\* No prompt outlives its execution: what is pending belongs to the runtime of an
\* execution that has not ended, whatever stop crosses the creation of the row.
NoOrphanPrompt ==
  \A a \in Approvals : row[a].status = "pending" =>
    exec.status \in {"active", "lapsed"} /\ exec.rt = row[a].rt

\* A wait resumes with an answer only after that answer is committed.
DurableBeforeResume ==
  \A t \in Turns, a \in Approvals :
    outcome[t][a] = "approve" => row[a].status = "approved"

\* One approval permits one dispatch, however often and from wherever it is presented.
OneDispatch ==
  \A a \in Approvals : Cardinality({c \in Calls : call[c].pc = "dispatched" /\ call[c].a = a}) <= 1

\* What was decided or expired is not decided again.
DecidedOnce ==
  [][\A a \in Approvals : row[a].status \in Stored => row'[a].status = row[a].status]_vars

\* A decision takes effect only under the execution the prompt belongs to, even when
\* the execution ends while the decision waits for the row.
DecidedUnderExecution ==
  [][\A a \in Approvals :
       row[a].status = "pending" /\ row'[a].status \in {"approved", "rejected"} =>
         exec.status \in {"active", "lapsed"} /\ exec.rt = row[a].rt]_vars

-----------------------------------------------------------------------------
(* What the flow promises                                                  *)

Promise == INSTANCE Consent WITH
  answer <- [a \in Approvals |-> row[a].status],
  asker <- [a \in Approvals |-> row[a].by],
  heard <- [t \in Turns |-> {a \in Approvals : outcome[t][a] = "approve"}],
  spent <- {a \in Approvals : row[a].consumed},
  ran <- [a \in Approvals |-> {c \in Calls : call[c].pc = "dispatched" /\ call[c].a = a}]

\* Whatever crashes, races or is asked again, each step is one of Consent or none: one
\* final answer, heard after it is committed, and one call of the turn that asked for
\* it and heard of it.
ImplementsConsent == Promise!ConsentSpec

-----------------------------------------------------------------------------
(* The inductive invariant that the proofs use                             *)

\* A bound turn has a runtime; the execution of a turn that is not bound yet has none.
RuntimeInv ==
  /\ \A t \in Turns : turn[t] = "open" => rt[t] # NoTurn
  /\ \A t \in Turns, a \in Approvals : req[t][a] # None => rt[t] # NoTurn
  /\ \A r \in Replicas : bound[r] # NoTurn => rt[bound[r]] # NoTurn
  /\ \A t \in Turns : turn[t] = "admitted" /\ exec.turn = t => exec.rt = NoTurn

\* What create has checked stays true until it commits, and so for the row it makes.
CreateInv ==
  /\ \A t \in Turns, a \in Approvals : req[t][a] = "inserting" =>
       exec.status \in {"active", "lapsed"} /\ exec.rt = rt[t]
  /\ \A a \in Approvals : row[a].status = "pending" => row[a].rt # NoTurn

Written(choice) == IF choice = "approve" THEN "approved" ELSE "rejected"

\* A decision that goes on to settle waits has been written.
SettleInv ==
  \A d \in Deciders : dec[d].pc = "settling" => row[dec[d].a].status = Written(dec[d].choice)

\* A claim marks an approved row, and only one call holds it.
ClaimInv ==
  /\ \A a \in Approvals : row[a].consumed => row[a].status = "approved"
  /\ \A c \in Calls : call[c].pc = "dispatched" => row[call[c].a].consumed
  /\ \A b, c \in Calls :
       call[b].pc = "dispatched" /\ call[c].pc = "dispatched" /\ call[b].a = call[c].a => b = c

\* A request answers once, when it settles.
WaitInv == \A t \in Turns, a \in Approvals : req[t][a] # "settled" => outcome[t][a] = None

\* A call under way is of a turn that heard its approval, and one about to claim the
\* approval is of the turn that asked for it.
CallInv ==
  \A c \in Calls :
    /\ call[c].pc \in {"called", "claiming"} => outcome[call[c].t][call[c].a] = "approve"
    /\ call[c].pc = "claiming" => row[call[c].a].by = call[c].t

\* Runtimes, creations, prompts, decisions, claims, waits and calls, together inductive.
FlowInvariant ==
  /\ TypeOK /\ RuntimeInv /\ CreateInv /\ NoOrphanPrompt /\ SettleInv /\ DurableBeforeResume
  /\ ClaimInv /\ WaitInv /\ CallInv

-----------------------------------------------------------------------------
\* Every wait settles, whatever becomes of the row and of its poll.
WaitSettles == \A t \in Turns, a \in Approvals : (req[t][a] = "waiting") ~> (req[t][a] # "waiting")

\* Every pending row is closed, also after a crash that took the timers.
PromptCloses == \A a \in Approvals : (row[a].status = "pending") ~> (row[a].status # "pending")
=============================================================================
