------------------------- MODULE ApprovalFlowProofs -------------------------
(***************************************************************************)
(* Proofs about ApprovalFlow, for every set of turns, replicas, approvals, *)
(* decisions and tool calls.                                               *)
(***************************************************************************)
EXTENDS ApprovalFlow, FiniteSetTheorems, TLAPS

-----------------------------------------------------------------------------
(* Types                                                                   *)

\* What a stored status answers is an outcome.
LEMMA StoredOutcomeType == \A s \in Stored : StoredOutcome[s] \in Outcomes
BY DEF Stored, StoredOutcome, Decisions, Outcomes

\* Replacing one row keeps the rows well formed.
LEMMA RowUpdateType ==
  ASSUME TypeOK, NEW a \in Approvals, NEW value \in Row, row' = [row EXCEPT ![a] = value]
  PROVE  row' \in [Approvals -> Row]
BY DEF TypeOK

\* Another status keeps a row well formed.
LEMMA StatusType ==
  ASSUME NEW value \in Row, NEW status \in Stored \cup {"absent", "pending"}
  PROVE  [value EXCEPT !.status = status] \in Row
BY DEF Row

\* Expiring a set of rows keeps the rows well formed.
LEMMA ExpiredType ==
  ASSUME TypeOK, NEW S
  PROVE  Expired(S) \in [Approvals -> Row]
<1>1. \A a \in Approvals : row[a] \in Row /\ [row[a] EXCEPT !.status = "expired"] \in Row
  BY StatusType DEF TypeOK, Stored
<1> QED
  BY <1>1 DEF Expired

\* A step of a request moves that request only, from where it is.
LEMMA AtMoves ==
  ASSUME TypeOK, NEW u \in Turns, NEW b \in Approvals, NEW from, NEW to, At(u, b, from, to),
         NEW t \in Turns, NEW a \in Approvals
  PROVE  req'[t][a] = req[t][a] \/ (t = u /\ a = b /\ req[t][a] = from /\ req'[t][a] = to)
BY DEF At, TypeOK

\* Settling a request moves that request and its outcome only.
LEMMA SettleMoves ==
  ASSUME TypeOK, NEW u \in Turns, NEW b \in Approvals, NEW o, Settle(u, b, o),
         NEW t \in Turns, NEW a \in Approvals
  PROVE  /\ req'[t][a] = req[t][a] \/ (t = u /\ a = b /\ req'[t][a] = "settled")
         /\ outcome'[t][a] = outcome[t][a] \/ (t = u /\ a = b /\ outcome'[t][a] = o)
BY DEF Settle, TypeOK

\* A step of a request keeps the shape of the requests.
LEMMA AtType ==
  ASSUME TypeOK, NEW t \in Turns, NEW a \in Approvals, NEW from, NEW to \in Places, At(t, a, from, to)
  PROVE  req' \in [Turns -> [Approvals -> Places]]
<1>1. [req[t] EXCEPT ![a] = to] \in [Approvals -> Places]
  BY DEF TypeOK
<1>2. req' = [req EXCEPT ![t] = [req[t] EXCEPT ![a] = to]]
  BY DEF At, TypeOK
<1> QED
  BY <1>1, <1>2 DEF TypeOK

\* Settling a request keeps the shape of the requests and of their outcomes.
LEMMA SettleType ==
  ASSUME TypeOK, NEW t \in Turns, NEW a \in Approvals, NEW o \in Outcomes, Settle(t, a, o)
  PROVE  /\ req' \in [Turns -> [Approvals -> Places]]
         /\ outcome' \in [Turns -> [Approvals -> Outcomes]]
<1>1. /\ [req[t] EXCEPT ![a] = "settled"] \in [Approvals -> Places]
      /\ [outcome[t] EXCEPT ![a] = o] \in [Approvals -> Outcomes]
  BY DEF TypeOK, Places
<1>2. /\ req' = [req EXCEPT ![t] = [req[t] EXCEPT ![a] = "settled"]]
      /\ outcome' = [outcome EXCEPT ![t] = [outcome[t] EXCEPT ![a] = o]]
  BY DEF Settle, TypeOK
<1> QED
  BY <1>1, <1>2 DEF TypeOK

\* Rejecting waits keeps the shape of the requests and of their outcomes.
LEMMA RejectType ==
  ASSUME TypeOK, NEW S, RejectWaits(S)
  PROVE  /\ req' \in [Turns -> [Approvals -> Places]]
         /\ outcome' \in [Turns -> [Approvals -> Outcomes]]
<1>1. "settled" \in Places /\ "reject" \in Outcomes
  BY DEF Places, Outcomes, Decisions
<1> QED
  BY <1>1 DEF RejectWaits, TypeOK

\* A decision moves to a state of a decision.
LEMMA SetDecType ==
  ASSUME TypeOK, NEW d \in Deciders, NEW value \in DecisionStates, SetDec(d, value)
  PROVE  dec' \in [Deciders -> DecisionStates]
BY DEF SetDec, TypeOK

\* What is resolving is a decision with its fields; a decided one goes on or is over.
LEMMA DecisionType ==
  /\ \A v \in DecisionStates : v.pc \in {"resolving", "locking", "settling"} => v \in Decision
  /\ \A pc \in {"idle", "missing", "resolved", "error"} : [pc |-> pc] \in DecisionStates
  /\ \A v \in Decision, pc \in {"resolving", "locking", "settling"} : [v EXCEPT !.pc = pc] \in DecisionStates
  /\ \A r \in Replicas, a \in Approvals, choice \in Decisions, E \in SUBSET Turns :
       [pc |-> "resolving", at |-> r, a |-> a, choice |-> choice, eligible |-> E] \in DecisionStates
BY DEF DecisionStates, Decision

\* The same for a tool call.
LEMMA ToolCallType ==
  /\ \A v \in CallStates : v.pc # "idle" => v \in ToolCall
  /\ \A v \in ToolCall, pc \in {"called", "claiming", "dispatched", "refused"} : [v EXCEPT !.pc = pc] \in CallStates
  /\ \A t \in Turns, a \in Approvals : [pc |-> "called", t |-> t, a |-> a] \in CallStates
BY DEF CallStates, ToolCall

\* A decision under way has its fields.
LEMMA DecisionFields ==
  ASSUME TypeOK, NEW d \in Deciders, dec[d].pc \in {"resolving", "locking", "settling"}
  PROVE  dec[d] \in Decision /\ dec[d].a \in Approvals /\ dec[d].choice \in Decisions
<1>1. dec[d] \in DecisionStates
  BY DEF TypeOK
<1>2. dec[d] \in Decision
  BY <1>1, DecisionType
<1> QED
  BY <1>2 DEF Decision

\* So has a tool call that was made.
LEMMA CallFields ==
  ASSUME TypeOK, NEW c \in Calls, call[c].pc # "idle"
  PROVE  call[c] \in ToolCall /\ call[c].a \in Approvals
<1>1. call[c] \in CallStates
  BY DEF TypeOK
<1>2. call[c] \in ToolCall
  BY <1>1, ToolCallType
<1> QED
  BY <1>2 DEF ToolCall

\* Every step keeps the shape of the state.
LEMMA TypeStep == TypeOK /\ [Next]_vars => TypeOK'
<1> SUFFICES ASSUME TypeOK, [Next]_vars PROVE TypeOK'
  OBVIOUS
<1> USE DEF turnVars, waitVars
<1>1. ASSUME NEW t \in Turns, Acquire(t) PROVE TypeOK'
  <2>1. row' \in [Approvals -> Row]
    BY <1>1, ExpiredType DEF Acquire, TypeOK
  <2> QED
    BY <1>1, <2>1 DEF Acquire, TypeOK
<1>2. ASSUME NEW t \in Turns, Bind(t) PROVE TypeOK'
  BY <1>2 DEF Bind, TypeOK
<1>3. ASSUME NEW t \in Turns, Abort(t) PROVE TypeOK'
  BY <1>3, RejectType DEF Abort, TypeOK
<1>4. ASSUME NEW t \in Turns, Close(t) PROVE TypeOK'
  BY <1>4, RejectType DEF Close, TypeOK
<1>5. CASE LeaseLapses
  BY <1>5 DEF LeaseLapses, TypeOK
<1>6. CASE EndExecution
  BY <1>6, ExpiredType DEF EndExecution, TypeOK
<1>7. ASSUME NEW r \in Replicas, AbortSession(r) PROVE TypeOK'
  <2>1. PICK mine \in SUBSET Turns :
          /\ turn' = [t \in Turns |-> IF t \in mine THEN "aborted" ELSE turn[t]]
          /\ RejectWaits(mine)
          /\ expiring' = expiring \cup (UNION {persisted[t] : t \in mine}) \cup PendingOf(rt[bound[r]])
          /\ persisted' = [t \in Turns |-> IF t \in mine THEN {} ELSE persisted[t]]
    BY <1>7 DEF AbortSession
  <2>2. expiring' \subseteq Approvals
    <3> DEFINE dropped == UNION {persisted[t] : t \in mine}
               pending == PendingOf(rt[bound[r]])
    <3>1. dropped \subseteq Approvals /\ pending \subseteq Approvals /\ expiring \subseteq Approvals
      <4>1. \A t \in mine : persisted[t] \subseteq Approvals
        BY DEF TypeOK
      <4>2. dropped \subseteq Approvals
        BY <4>1, Zenon
      <4> QED
        BY <4>2 DEF TypeOK, PendingOf
    <3>2. expiring' = expiring \cup dropped \cup pending
      BY <2>1
    <3> HIDE DEF dropped, pending
    <3> QED
      BY <3>1, <3>2
  <2>3. turn' \in [Turns -> {"idle", "admitted", "open", "aborted", "closed", "crashed"}]
    BY <2>1 DEF TypeOK
  <2>4. persisted' \in [Turns -> SUBSET Approvals]
    BY <2>1 DEF TypeOK
  <2>5. bound' \in [Replicas -> Turns \cup {NoTurn}]
    BY <1>7 DEF AbortSession, TypeOK
  <2> QED
    BY <1>7, <2>1, <2>2, <2>3, <2>4, <2>5, RejectType DEF AbortSession, TypeOK
<1>8. ASSUME NEW r \in Replicas, Crash(r) PROVE TypeOK'
  <2>1. req' \in [Turns -> [Approvals -> Places]]
    <3>1. "settled" \in Places
      BY DEF Places
    <3> QED
      BY <1>8, <3>1 DEF Crash, TypeOK
  <2>2. turn' \in [Turns -> {"idle", "admitted", "open", "aborted", "closed", "crashed"}]
    BY <1>8 DEF Crash, TypeOK
  <2> QED
    BY <1>8, <2>1, <2>2 DEF Crash, TypeOK
<1>9. ASSUME NEW t \in Turns, NEW a \in Approvals, RequestStep(t, a) PROVE TypeOK'
  <2>1. CASE Request(t, a)
    BY <2>1, AtType DEF Request, TypeOK, Places
  <2>2. CASE ReadFirst(t, a)
    <3>1. CASE row[a].status \in Stored
      BY <2>2, <3>1, StoredOutcomeType, SettleType DEF ReadFirst, TypeOK
    <3>2. CASE row[a].status \notin Stored
      BY <2>2, <3>2, AtType DEF ReadFirst, TypeOK, Places
    <3> QED
      BY <3>1, <3>2
  <2>3. CASE CreateChecks(t, a)
    BY <2>3, AtType DEF CreateChecks, TypeOK, Places
  <2>4. CASE CreateInserts(t, a)
    <3>1. req' \in [Turns -> [Approvals -> Places]]
      BY <2>4, AtType DEF CreateInserts, Places
    <3>2. [status |-> "pending", rt |-> rt[t], by |-> t, consumed |-> FALSE] \in Row
      BY DEF Row, TypeOK
    <3>3. row' \in [Approvals -> Row]
      BY <2>4, <3>2, RowUpdateType DEF CreateInserts, TypeOK
    <3> QED
      BY <2>4, <3>1, <3>3 DEF CreateInserts, TypeOK
  <2>5. CASE ReadAgain(t, a)
    <3>1. "created" \in Places /\ "unavailable" \in Outcomes
      BY DEF Places, Outcomes
    <3> QED
      BY <2>5, <3>1, StoredOutcomeType, SettleType, AtType DEF ReadAgain, TypeOK
  <2>6. CASE Register(t, a)
    <3>1. "waiting" \in Places /\ {"unavailable", "reject"} \subseteq Outcomes
      BY DEF Places, Outcomes, Decisions
    <3>2. /\ req' \in [Turns -> [Approvals -> Places]]
          /\ outcome' \in [Turns -> [Approvals -> Outcomes]]
      BY <2>6, <3>1, SettleType, AtType DEF Register, TypeOK
    <3> QED
      BY <2>6, <3>2 DEF Register, TypeOK
  <2>7. CASE TtlFires(t, a)
    BY <2>7, SettleType DEF TtlFires, TypeOK, Outcomes
  <2>8. CASE Poll(t, a)
    BY <2>8, StoredOutcomeType, SettleType DEF Poll, TypeOK
  <2> QED
    BY <1>9, <2>1, <2>2, <2>3, <2>4, <2>5, <2>6, <2>7, <2>8 DEF RequestStep
<1>10. ASSUME NEW a \in Approvals, Overdue(a) \/ ExpireById(a) PROVE TypeOK'
  BY <1>10, ExpiredType DEF Overdue, ExpireById, TypeOK
<1>11. CASE SweepExpired
  BY <1>11, ExpiredType DEF SweepExpired, TypeOK
<1>12. ASSUME NEW d \in Deciders, NEW r \in Replicas, NEW a \in Approvals,
              NEW choice \in Decisions, DecideStarts(d, r, a, choice)
       PROVE  TypeOK'
  <2>1. PICK value \in DecisionStates : SetDec(d, value)
    BY <1>12, DecisionType DEF DecideStarts, WaitsAt
  <2> QED
    BY <1>12, <2>1, SetDecType DEF DecideStarts, TypeOK
<1>13. ASSUME NEW d \in Deciders, ResolveReads(d) PROVE TypeOK'
  <2>1. PICK value \in DecisionStates : SetDec(d, value)
    BY <1>13, DecisionType DEF ResolveReads, TypeOK
  <2> QED
    BY <1>13, <2>1, SetDecType DEF ResolveReads, TypeOK
<1>14. ASSUME NEW d \in Deciders, ResolveWrites(d) PROVE TypeOK'
  <2>1. dec[d] \in Decision /\ dec[d].a \in Approvals
    BY <1>14, DecisionFields DEF ResolveWrites
  <2>2. row' \in [Approvals -> Row]
    <3> DEFINE status == IF dec[d].choice = "approve" THEN "approved" ELSE "rejected"
    <3>1. [row[dec[d].a] EXCEPT !.status = status] \in Row
      BY <2>1, StatusType DEF TypeOK, Stored
    <3>2. row' = row \/ row' = [row EXCEPT ![dec[d].a] = [row[dec[d].a] EXCEPT !.status = status]]
      BY <1>14, <2>1 DEF ResolveWrites, TypeOK
    <3> QED
      BY <2>1, <3>1, <3>2, RowUpdateType DEF TypeOK
  <2>3. dec' \in [Deciders -> DecisionStates]
    BY <1>14, <2>1, DecisionType, SetDecType DEF ResolveWrites
  <2> QED
    BY <1>14, <2>2, <2>3 DEF ResolveWrites, TypeOK
<1>15. ASSUME NEW d \in Deciders, DecideSettles(d) PROVE TypeOK'
  <2>1. dec[d] \in Decision /\ dec[d].a \in Approvals /\ dec[d].choice \in Outcomes
    <3>1. dec[d].pc = "settling"
      BY <1>15 DEF DecideSettles, Settles
    <3> QED
      BY <3>1, DecisionFields DEF Outcomes
  <2>2. dec' \in [Deciders -> DecisionStates]
    BY <1>15, DecisionType, SetDecType DEF DecideSettles
  <2>3. /\ req' \in [Turns -> [Approvals -> Places]]
        /\ outcome' \in [Turns -> [Approvals -> Outcomes]]
    <3>1. \A t \in Turns : /\ [req[t] EXCEPT ![dec[d].a] = "settled"] \in [Approvals -> Places]
                           /\ [outcome[t] EXCEPT ![dec[d].a] = dec[d].choice] \in [Approvals -> Outcomes]
      BY <2>1 DEF TypeOK, Places
    <3> QED
      BY <1>15, <3>1 DEF DecideSettles, TypeOK
  <2> QED
    BY <1>15, <2>2, <2>3 DEF DecideSettles, TypeOK
<1>16. ASSUME NEW c \in Calls, NEW t \in Turns, NEW a \in Approvals, CallTool(c, t, a) PROVE TypeOK'
  BY <1>16, ToolCallType DEF CallTool, TypeOK
<1>17. ASSUME NEW c \in Calls, GateReads(c) PROVE TypeOK'
  <2>1. call[c] \in ToolCall
    BY <1>17, CallFields DEF GateReads
  <2>2. PICK pc \in {"claiming", "refused"} : call' = [call EXCEPT ![c] = [call[c] EXCEPT !.pc = pc]]
    BY <1>17, <2>1 DEF GateReads, TypeOK
  <2> QED
    <3>1. [call[c] EXCEPT !.pc = pc] \in CallStates
      BY <2>1, ToolCallType
    <3> QED
      BY <1>17, <2>2, <3>1 DEF GateReads, TypeOK
<1>18. ASSUME NEW c \in Calls, GateClaims(c) PROVE TypeOK'
  <2>1. call[c] \in ToolCall /\ call[c].a \in Approvals
    BY <1>18, CallFields DEF GateClaims
  <2>2. row' \in [Approvals -> Row]
    <3>1. [row[call[c].a] EXCEPT !.consumed = TRUE] \in Row
      <4>1. \A value \in Row : [value EXCEPT !.consumed = TRUE] \in Row
        BY DEF Row
      <4> QED
        BY <2>1, <4>1 DEF TypeOK
    <3>2. row' = row \/ row' = [row EXCEPT ![call[c].a] = [row[call[c].a] EXCEPT !.consumed = TRUE]]
      BY <1>18, <2>1 DEF GateClaims, TypeOK
    <3> QED
      BY <2>1, <3>1, <3>2, RowUpdateType DEF TypeOK
  <2>3. PICK pc \in {"dispatched", "refused"} : call' = [call EXCEPT ![c] = [call[c] EXCEPT !.pc = pc]]
    BY <1>18, <2>1 DEF GateClaims, TypeOK
  <2> QED
    BY <1>18, <2>1, <2>2, <2>3, ToolCallType DEF GateClaims, TypeOK
<1>19. CASE UNCHANGED vars
  BY <1>19 DEF vars, TypeOK
<1> QED
  BY <1>1, <1>2, <1>3, <1>4, <1>5, <1>6, <1>7, <1>8, <1>9, <1>10, <1>11, <1>12, <1>13,
     <1>14, <1>15, <1>16, <1>17, <1>18, <1>19 DEF Next

\* Type correctness: every step of the flow keeps the shape of the state.
THEOREM TypeCorrect == Spec => []TypeOK
<1>1. Init => TypeOK
  BY DEF Init, TypeOK, Row, Places, Outcomes, DecisionStates, CallStates
<1> QED
  BY <1>1, TypeStep, PTL DEF Spec

-----------------------------------------------------------------------------
(* How a step changes a row                                                *)

\* The ways a row changes: it is expired, created, decided or claimed.
RowChange(a) ==
  \/ row'[a] = row[a]
  \/ /\ row[a].status = "pending"
     /\ row'[a] = [row[a] EXCEPT !.status = "expired"]
  \/ /\ row[a].status = "absent"
     /\ UNCHANGED exec
     /\ \E t \in Turns :
          /\ req[t][a] = "inserting"
          /\ row'[a] = [status |-> "pending", rt |-> rt[t], by |-> t, consumed |-> FALSE]
  \/ /\ row[a].status = "pending"
     /\ UNCHANGED exec
     /\ \E status \in {"approved", "rejected"} : row'[a] = [row[a] EXCEPT !.status = status]
  \/ /\ Claimable(a)
     /\ row'[a] = [row[a] EXCEPT !.consumed = TRUE]

\* Expiring pending rows is a change of the second kind.
LEMMA ExpiredChange ==
  ASSUME TypeOK, NEW S, row' = Expired(S), \A a \in S : row[a].status = "pending",
         NEW a \in Approvals
  PROVE  RowChange(a)
BY DEF RowChange, Expired

\* Every step changes a row in one of these ways.
LEMMA RowStep == ASSUME TypeOK, [Next]_vars, NEW a \in Approvals PROVE RowChange(a)
<1> USE DEF turnVars, waitVars
<1>1. ASSUME NEW t \in Turns, Acquire(t) PROVE RowChange(a)
  <2>1. \A b \in PendingOf(exec.rt) : row[b].status = "pending"
    BY DEF PendingOf
  <2>2. row' = Expired(PendingOf(exec.rt)) \/ row' = row
    BY <1>1 DEF Acquire
  <2> QED
    BY <2>1, <2>2, ExpiredChange DEF RowChange
<1>2. CASE EndExecution
  BY <1>2, ExpiredChange DEF EndExecution, PendingOf
<1>3. ASSUME NEW t \in Turns, NEW b \in Approvals, CreateInserts(t, b) PROVE RowChange(a)
  BY <1>3 DEF CreateInserts, At, RowChange, TypeOK
<1>4. ASSUME NEW b \in Approvals, ExpireById(b) PROVE RowChange(a)
  BY <1>4, ExpiredChange DEF ExpireById, RowChange
<1>5. CASE SweepExpired
  BY <1>5, ExpiredChange DEF SweepExpired, Sweepable
<1>6. ASSUME NEW d \in Deciders, ResolveWrites(d) PROVE RowChange(a)
  <2>1. dec[d] \in Decision /\ dec[d].a \in Approvals
    BY <1>6, DecisionFields DEF ResolveWrites
  <2>2. CASE row' = row
    BY <2>2 DEF RowChange
  <2>3. CASE row' # row
    <3>1. PICK status \in {"approved", "rejected"} :
            /\ row[dec[d].a].status = "pending"
            /\ row' = [row EXCEPT ![dec[d].a].status = status]
            /\ exec' = exec
      BY <1>6, <2>3 DEF ResolveWrites, StillPending
    <3> QED
      BY <2>1, <3>1 DEF RowChange, TypeOK
  <2> QED
    BY <2>2, <2>3
<1>7. ASSUME NEW c \in Calls, GateClaims(c) PROVE RowChange(a)
  <2>1. call[c].a \in Approvals
    BY <1>7, CallFields DEF GateClaims
  <2>2. CASE row' = row
    BY <2>2 DEF RowChange
  <2>3. CASE Claimable(call[c].a) /\ row' = [row EXCEPT ![call[c].a].consumed = TRUE]
    <3>1. CASE a = call[c].a
      BY <2>1, <2>3, <3>1 DEF RowChange, TypeOK
    <3>2. CASE a # call[c].a
      BY <2>1, <2>3, <3>2 DEF RowChange, TypeOK
    <3> QED
      BY <3>1, <3>2
  <2> QED
    BY <1>7, <2>2, <2>3 DEF GateClaims
<1>8. ASSUME UNCHANGED row PROVE RowChange(a)
  BY <1>8 DEF RowChange
<1> QED
  BY <1>1, <1>2, <1>3, <1>4, <1>5, <1>6, <1>7, <1>8, ZenonT(30)
  DEF Next, RequestStep, Bind, Abort, Close, LeaseLapses, AbortSession, Crash, Request, ReadFirst,
      CreateChecks, ReadAgain, Register, TtlFires, Poll, Overdue, DecideStarts, ResolveReads,
      DecideSettles, CallTool, GateReads, vars

\* A row that becomes pending was created by a request that held the execution row.
LEMMA CreatedRow ==
  ASSUME TypeOK, [Next]_vars, NEW a \in Approvals, row[a].status # "pending", row'[a].status = "pending"
  PROVE  \E t \in Turns : req[t][a] = "inserting" /\ row'[a].rt = rt[t] /\ exec' = exec
<1>1. row[a] \in Row /\ RowChange(a)
  BY RowStep DEF TypeOK
<1>2. CASE \E t \in Turns :
             /\ req[t][a] = "inserting"
             /\ row'[a] = [status |-> "pending", rt |-> rt[t], by |-> t, consumed |-> FALSE]
             /\ exec' = exec
  BY <1>2
<1>3. CASE row'[a] = row[a] \/ row'[a] = [row[a] EXCEPT !.consumed = TRUE]
  BY <1>1, <1>3 DEF Row
<1> QED
  BY <1>1, <1>2, <1>3 DEF RowChange

\* A stored status stays.
LEMMA StoredStays ==
  ASSUME TypeOK, [Next]_vars, NEW a \in Approvals, row[a].status \in Stored
  PROVE  row'[a].status = row[a].status
<1>1. row[a] \in Row
  BY DEF TypeOK
<1> QED
  BY <1>1, RowStep DEF RowChange, Stored, Row

\* What was decided or expired is never decided again, by whatever writer.
THEOREM DecidedOnceHolds == Spec => DecidedOnce
<1>1. TypeOK /\ [Next]_vars =>
        [\A a \in Approvals : row[a].status \in Stored => row'[a].status = row[a].status]_vars
  BY StoredStays
<1> QED
  BY <1>1, TypeCorrect, PTL DEF Spec, DecidedOnce

-----------------------------------------------------------------------------
(* Runtimes, creations and prompts                                         *)

\* Bound turns keep their runtimes.
LEMMA RuntimeStep == TypeOK /\ RuntimeInv /\ [Next]_vars => RuntimeInv'
<1> SUFFICES ASSUME TypeOK, RuntimeInv, [Next]_vars PROVE RuntimeInv'
  OBVIOUS
<1> USE ApprovalAssumption DEF turnVars, waitVars
<1>1. ASSUME NEW t \in Turns, Acquire(t) PROVE RuntimeInv'
  BY <1>1 DEF Acquire, RuntimeInv, TypeOK
<1>2. ASSUME NEW t \in Turns, Bind(t) PROVE RuntimeInv'
  BY <1>2 DEF Bind, RuntimeInv, TypeOK
<1>3. ASSUME NEW t \in Turns, Abort(t) \/ Close(t) PROVE RuntimeInv'
  BY <1>3 DEF Abort, Close, RejectWaits, Waiting, RuntimeInv, TypeOK, None
<1>4. CASE LeaseLapses \/ EndExecution
  BY <1>4 DEF LeaseLapses, EndExecution, RuntimeInv, TypeOK
<1>5. ASSUME NEW r \in Replicas, AbortSession(r) PROVE RuntimeInv'
  BY <1>5 DEF AbortSession, RejectWaits, Waiting, RuntimeInv, TypeOK, None
<1>6. ASSUME NEW r \in Replicas, Crash(r) PROVE RuntimeInv'
  BY <1>6 DEF Crash, RuntimeInv, TypeOK
<1>7. ASSUME NEW t \in Turns, NEW a \in Approvals, RequestStep(t, a) PROVE RuntimeInv'
  <2>1. UNCHANGED <<exec, bound, turn, rt>> /\ (turn[t] = "open" \/ req[t][a] # None)
    <3>1. CASE Request(t, a)
      BY <3>1 DEF Request
    <3>2. CASE ReadFirst(t, a) \/ CreateChecks(t, a) \/ CreateInserts(t, a) \/ ReadAgain(t, a)
      BY <3>2 DEF ReadFirst, CreateChecks, CreateInserts, ReadAgain, At, None
    <3>3. CASE Register(t, a) \/ TtlFires(t, a) \/ Poll(t, a)
      BY <3>3 DEF Register, TtlFires, TimerRuns, Poll, At, None
    <3> QED
      BY <1>7, <3>1, <3>2, <3>3 DEF RequestStep
  <2>2. rt[t] # NoTurn
    BY <2>1 DEF RuntimeInv
  <2>3. \A u \in Turns : u # t => req'[u] = req[u]
    BY <1>7 DEF RequestStep, Request, ReadFirst, CreateChecks, CreateInserts, ReadAgain, Register,
                TtlFires, Poll, At, Settle, TypeOK
  <2> QED
    BY <2>1, <2>2, <2>3 DEF RuntimeInv
<1>8. ASSUME NEW d \in Deciders, DecideSettles(d) PROVE RuntimeInv'
  BY <1>8 DEF DecideSettles, RuntimeInv, TypeOK, None
<1>9. ASSUME UNCHANGED <<turnVars, req>> PROVE RuntimeInv'
  BY <1>9 DEF RuntimeInv
<1> QED
  BY <1>1, <1>2, <1>3, <1>4, <1>5, <1>6, <1>7, <1>8, <1>9
  DEF Next, Overdue, ExpireById, SweepExpired, DecideStarts, ResolveReads, ResolveWrites,
      CallTool, GateReads, GateClaims, vars

\* A create that holds the execution row keeps it from its writers, and no turn is bound.
LEMMA LockedExecution ==
  ASSUME TypeOK, [Next]_vars, NEW t \in Turns, NEW a \in Approvals, req[t][a] = "inserting"
  PROVE  /\ exec' = exec \/ LeaseLapses
         /\ rt' = rt
<1> USE DEF turnVars, waitVars, ExecFree
<1>1. ASSUME NEW u \in Turns, Acquire(u) \/ Bind(u) PROVE FALSE
  BY <1>1 DEF Acquire, Bind
<1>2. CASE EndExecution
  BY <1>2 DEF EndExecution
<1>3. CASE LeaseLapses
  BY <1>3 DEF LeaseLapses
<1>4. CASE exec' = exec /\ rt' = rt
  BY <1>4
<1> QED
  BY <1>1, <1>2, <1>3, <1>4, ZenonT(30)
  DEF Next, RequestStep, Abort, Close, AbortSession, Crash, Request, ReadFirst, CreateChecks,
      CreateInserts, ReadAgain, Register, TtlFires, Poll, Overdue, ExpireById, SweepExpired,
      DecideStarts, ResolveReads, ResolveWrites, DecideSettles, CallTool, GateReads, GateClaims, vars

\* A request that inserts did so before, or has just checked its execution.
LEMMA InsertOrigin ==
  ASSUME TypeOK, [Next]_vars, NEW t \in Turns, NEW a \in Approvals, req'[t][a] = "inserting"
  PROVE  req[t][a] = "inserting" \/ (Live(rt[t]) /\ UNCHANGED <<exec, rt>>)
<1> USE DEF turnVars, waitVars
<1>1. ASSUME NEW S, RejectWaits(S) PROVE req[t][a] = "inserting"
  BY <1>1 DEF RejectWaits
<1>2. ASSUME NEW r \in Replicas, Crash(r) PROVE req[t][a] = "inserting"
  BY <1>2 DEF Crash
<1>3. ASSUME NEW u \in Turns, NEW b \in Approvals, RequestStep(u, b)
      PROVE  req[t][a] = "inserting" \/ (Live(rt[t]) /\ UNCHANGED <<exec, rt>>)
  <2>1. ASSUME NEW from, NEW to, At(u, b, from, to), to # "inserting" PROVE req[t][a] = "inserting"
    BY <2>1, AtMoves
  <2>2. ASSUME NEW o, Settle(u, b, o) PROVE req[t][a] = "inserting"
    BY <2>2, SettleMoves
  <2>3. CASE Request(u, b)
    BY <2>1, <2>3 DEF Request
  <2>4. CASE ReadFirst(u, b)
    BY <2>1, <2>2, <2>4 DEF ReadFirst
  <2>5. CASE CreateChecks(u, b)
    <3>1. CASE Live(rt[u])
      BY <2>5, <3>1, AtMoves DEF CreateChecks
    <3>2. CASE ~Live(rt[u])
      BY <2>1, <2>5, <3>2 DEF CreateChecks
    <3> QED
      BY <3>1, <3>2
  <2>6. CASE CreateInserts(u, b)
    BY <2>1, <2>6 DEF CreateInserts
  <2>7. CASE ReadAgain(u, b)
    BY <2>1, <2>2, <2>7 DEF ReadAgain
  <2>8. CASE Register(u, b) \/ TtlFires(u, b) \/ Poll(u, b)
    BY <2>1, <2>2, <2>8 DEF Register, TtlFires, Poll
  <2> QED
    BY <1>3, <2>3, <2>4, <2>5, <2>6, <2>7, <2>8 DEF RequestStep
<1>4. ASSUME NEW d \in Deciders, DecideSettles(d) PROVE req[t][a] = "inserting"
  BY <1>4 DEF DecideSettles, TypeOK
<1>5. CASE UNCHANGED req
  BY <1>5
<1> QED
  BY <1>1, <1>2, <1>3, <1>4, <1>5
  DEF Next, Acquire, Bind, Abort, Close, LeaseLapses, EndExecution, AbortSession, Overdue, ExpireById,
      SweepExpired, DecideStarts, ResolveReads, ResolveWrites, CallTool, GateReads, GateClaims, vars

\* What create has checked stays true, and its row belongs to a runtime.
LEMMA CreateStep == TypeOK /\ RuntimeInv /\ CreateInv /\ [Next]_vars => CreateInv'
<1> SUFFICES ASSUME TypeOK, RuntimeInv, CreateInv, [Next]_vars PROVE CreateInv'
  OBVIOUS
<1>1. ASSUME NEW t \in Turns, NEW a \in Approvals, req'[t][a] = "inserting"
      PROVE  exec'.status \in {"active", "lapsed"} /\ exec'.rt = rt'[t]
  <2>1. CASE req[t][a] = "inserting"
    <3>1. exec.status \in {"active", "lapsed"} /\ exec.rt = rt[t]
      BY <2>1 DEF CreateInv
    <3>2. rt' = rt /\ (exec' = exec \/ LeaseLapses)
      BY <2>1, LockedExecution
    <3>3. CASE exec' = exec
      BY <3>1, <3>2, <3>3
    <3>4. CASE LeaseLapses
      BY <3>1, <3>2, <3>4 DEF LeaseLapses, TypeOK
    <3> QED
      BY <3>2, <3>3, <3>4
  <2>2. CASE req[t][a] # "inserting"
    BY <1>1, <2>2, InsertOrigin DEF Live
  <2> QED
    BY <2>1, <2>2
<1>2. ASSUME NEW a \in Approvals, row'[a].status = "pending" PROVE row'[a].rt # NoTurn
  <2>1. row[a] \in Row
    BY DEF TypeOK
  <2>2. CASE row[a].status = "pending"
    BY <1>2, <2>1, <2>2, RowStep DEF RowChange, CreateInv, Row, Claimable
  <2>3. CASE row[a].status # "pending"
    <3>1. PICK t \in Turns : req[t][a] = "inserting" /\ row'[a].rt = rt[t]
      BY <1>2, <2>3, CreatedRow
    <3> QED
      BY <3>1 DEF RuntimeInv, None
  <2> QED
    BY <2>2, <2>3
<1> QED
  BY <1>1, <1>2 DEF CreateInv

\* No step leaves a prompt whose execution is over, or makes one.
LEMMA PromptStep ==
  TypeOK /\ RuntimeInv /\ CreateInv /\ NoOrphanPrompt /\ [Next]_vars => NoOrphanPrompt'
<1> SUFFICES ASSUME TypeOK, RuntimeInv, CreateInv, NoOrphanPrompt, [Next]_vars,
                    NEW a \in Approvals, row'[a].status = "pending"
             PROVE  exec'.status \in {"active", "lapsed"} /\ exec'.rt = row'[a].rt
  BY DEF NoOrphanPrompt
<1> USE DEF turnVars
<1>1. row[a] \in Row
  BY DEF TypeOK
<1>2. CASE row[a].status # "pending"
  <2>1. PICK t \in Turns : req[t][a] = "inserting" /\ row'[a].rt = rt[t] /\ exec' = exec
    BY <1>2, CreatedRow
  <2> QED
    BY <2>1 DEF CreateInv
<1>3. CASE row[a].status = "pending"
  <2>1. /\ exec.status \in {"active", "lapsed"}
        /\ exec.rt = row[a].rt
        /\ row[a].rt # NoTurn
    BY <1>3 DEF NoOrphanPrompt, CreateInv
  <2>2. row'[a].rt = row[a].rt
    BY <1>1, <1>3, RowStep DEF RowChange, Row, Claimable
  <2>3. ASSUME row' = Expired(PendingOf(exec.rt)) PROVE FALSE
    BY <1>1, <1>3, <2>1, <2>3 DEF Expired, PendingOf, Row
  <2>4. ASSUME NEW t \in Turns, Acquire(t) PROVE FALSE
    BY <2>1, <2>3, <2>4 DEF Acquire
  <2>5. ASSUME NEW t \in Turns, Bind(t) PROVE FALSE
    BY <2>1, <2>5 DEF Bind, RuntimeInv
  <2>6. CASE EndExecution
    BY <2>3, <2>6 DEF EndExecution
  <2>7. CASE LeaseLapses
    BY <2>1, <2>2, <2>7 DEF LeaseLapses, TypeOK
  <2>8. CASE UNCHANGED exec
    BY <2>1, <2>2, <2>8
  <2> QED
    BY <2>4, <2>5, <2>6, <2>7, <2>8, ZenonT(30)
    DEF Next, RequestStep, Abort, Close, AbortSession, Crash, Request, ReadFirst, CreateChecks,
        CreateInserts, ReadAgain, Register, TtlFires, Poll, Overdue, ExpireById, SweepExpired,
        DecideStarts, ResolveReads, ResolveWrites, DecideSettles, CallTool, GateReads, GateClaims, vars
<1> QED
  BY <1>2, <1>3
-----------------------------------------------------------------------------
(* Decisions and answers                                                   *)

\* A decision that settles has just been written, or was settling before.
LEMMA SettlingOrigin ==
  ASSUME TypeOK, [Next]_vars, NEW d \in Deciders, dec'[d].pc = "settling"
  PROVE  \/ dec'[d] = dec[d]
         \/ /\ dec'[d] \in Decision
            /\ row'[dec'[d].a].status = Written(dec'[d].choice)
<1> USE DEF turnVars, waitVars
<1>1. ASSUME NEW e \in Deciders, NEW value, SetDec(e, value), value.pc # "settling"
      PROVE  dec'[d] = dec[d]
  BY <1>1 DEF SetDec, TypeOK
<1>2. ASSUME NEW e \in Deciders, NEW r \in Replicas, NEW a \in Approvals, NEW choice \in Decisions,
             DecideStarts(e, r, a, choice)
      PROVE  dec'[d] = dec[d]
  BY <1>1, <1>2 DEF DecideStarts
<1>3. ASSUME NEW e \in Deciders, ResolveReads(e) PROVE dec'[d] = dec[d]
  <2>1. dec[e] \in Decision
    BY <1>3, DecisionFields DEF ResolveReads
  <2>2. [dec[e] EXCEPT !.pc = "locking"].pc = "locking"
    BY <2>1 DEF Decision
  <2> QED
    BY <1>1, <1>3, <2>2 DEF ResolveReads
<1>4. ASSUME NEW e \in Deciders, DecideSettles(e) PROVE dec'[d] = dec[d]
  BY <1>1, <1>4 DEF DecideSettles
<1>5. ASSUME NEW e \in Deciders, ResolveWrites(e), dec'[d] # dec[d]
      PROVE  /\ dec'[d] \in Decision
             /\ row'[dec'[d].a].status = Written(dec'[d].choice)
  <2>1. dec[e] \in Decision /\ dec[e].a \in Approvals /\ row[dec[e].a] \in Row
    <3>1. dec[e] \in Decision /\ dec[e].a \in Approvals
      BY <1>5, DecisionFields DEF ResolveWrites
    <3> QED
      BY <3>1 DEF TypeOK
  <2>2. /\ row' = [row EXCEPT ![dec[e].a].status = IF dec[e].choice = "approve" THEN "approved" ELSE "rejected"]
        /\ SetDec(e, [dec[e] EXCEPT !.pc = "settling"])
    BY <1>1, <1>5 DEF ResolveWrites
  <2>3. e = d /\ dec'[d] = [dec[d] EXCEPT !.pc = "settling"]
    BY <1>5, <2>2 DEF SetDec, TypeOK
  <2>4. dec'[d] \in Decision /\ dec'[d].a = dec[d].a /\ dec'[d].choice = dec[d].choice
    BY <2>1, <2>3 DEF Decision
  <2> QED
    BY <2>1, <2>2, <2>3, <2>4 DEF Written, TypeOK, Row
<1>6. CASE UNCHANGED dec
  BY <1>6
<1> QED
  BY <1>2, <1>3, <1>4, <1>5, <1>6, ZenonT(30)
  DEF Next, RequestStep, Acquire, Bind, Abort, Close, LeaseLapses, EndExecution, AbortSession, Crash,
      Request, ReadFirst, CreateChecks, CreateInserts, ReadAgain, Register, TtlFires, Poll, Overdue,
      ExpireById, SweepExpired, CallTool, GateReads, GateClaims, vars

\* What a settling decision has written stays.
LEMMA SettleStep == TypeOK /\ SettleInv /\ [Next]_vars => SettleInv'
<1> SUFFICES ASSUME TypeOK, SettleInv, [Next]_vars,
                    NEW d \in Deciders, dec'[d].pc = "settling"
             PROVE  row'[dec'[d].a].status = Written(dec'[d].choice)
  BY DEF SettleInv
<1>1. CASE dec'[d] = dec[d]
  <2>1. dec[d].a \in Approvals
    BY <1>1, DecisionFields
  <2>2. row[dec[d].a].status = Written(dec[d].choice)
    BY <1>1 DEF SettleInv
  <2>3. row[dec[d].a].status \in Stored
    BY <2>2 DEF Written, Stored
  <2>4. row'[dec[d].a].status = row[dec[d].a].status
    BY <2>1, <2>3, StoredStays
  <2> QED
    BY <1>1, <2>2, <2>4
<1> QED
  BY <1>1, SettlingOrigin

\* A wait that reports approval did so before, or found the approval in the row.
LEMMA ApprovalOrigin ==
  ASSUME TypeOK, SettleInv, [Next]_vars, NEW t \in Turns, NEW a \in Approvals,
         outcome'[t][a] = "approve"
  PROVE  outcome[t][a] = "approve" \/ row[a].status = "approved"
<1> USE DEF turnVars, waitVars
<1>1. ASSUME NEW S, RejectWaits(S) PROVE outcome[t][a] = "approve"
  BY <1>1 DEF RejectWaits
<1>2. ASSUME NEW u \in Turns, NEW b \in Approvals, NEW o, Settle(u, b, o),
             o = "approve" => row[b].status = "approved"
      PROVE  outcome[t][a] = "approve" \/ row[a].status = "approved"
  BY <1>2, SettleMoves
<1>3. \A s \in Stored : StoredOutcome[s] = "approve" => s = "approved"
  BY DEF Stored, StoredOutcome
<1>4. ASSUME NEW u \in Turns, NEW b \in Approvals, RequestStep(u, b)
      PROVE  outcome[t][a] = "approve" \/ row[a].status = "approved"
  <2>1. CASE UNCHANGED outcome
    BY <2>1
  <2>2. CASE Request(u, b) \/ CreateChecks(u, b) \/ CreateInserts(u, b)
    BY <2>1, <2>2 DEF Request, CreateChecks, CreateInserts
  <2>3. CASE ReadFirst(u, b)
    BY <1>2, <1>3, <2>1, <2>3 DEF ReadFirst
  <2>4. CASE ReadAgain(u, b)
    BY <1>2, <1>3, <2>1, <2>4 DEF ReadAgain
  <2>5. CASE Register(u, b)
    BY <1>2, <2>1, <2>5 DEF Register
  <2>6. CASE TtlFires(u, b)
    BY <1>2, <2>6 DEF TtlFires
  <2>7. CASE Poll(u, b)
    BY <1>2, <1>3, <2>7 DEF Poll
  <2> QED
    BY <1>4, <2>2, <2>3, <2>4, <2>5, <2>6, <2>7 DEF RequestStep
<1>5. ASSUME NEW d \in Deciders, DecideSettles(d)
      PROVE  outcome[t][a] = "approve" \/ row[a].status = "approved"
  <2>1. dec[d].pc = "settling"
    BY <1>5 DEF DecideSettles, Settles
  <2>2. outcome'[t][a] = outcome[t][a] \/ (a = dec[d].a /\ outcome'[t][a] = dec[d].choice)
    BY <1>5 DEF DecideSettles, TypeOK
  <2> QED
    BY <2>1, <2>2 DEF SettleInv, Written
<1>6. CASE UNCHANGED outcome
  BY <1>6
<1> QED
  BY <1>1, <1>4, <1>5, <1>6
  DEF Next, Acquire, Bind, Abort, Close, LeaseLapses, EndExecution, AbortSession, Crash, Overdue,
      ExpireById, SweepExpired, DecideStarts, ResolveReads, ResolveWrites, CallTool, GateReads,
      GateClaims, vars

\* An approval that a wait reports is stored, and stays so.
LEMMA DurableStep == TypeOK /\ SettleInv /\ DurableBeforeResume /\ [Next]_vars => DurableBeforeResume'
<1> SUFFICES ASSUME TypeOK, SettleInv, DurableBeforeResume, [Next]_vars,
                    NEW t \in Turns, NEW a \in Approvals, outcome'[t][a] = "approve"
             PROVE  row'[a].status = "approved"
  BY DEF DurableBeforeResume
<1>1. row[a].status = "approved"
  BY ApprovalOrigin DEF DurableBeforeResume
<1> QED
  BY <1>1, StoredStays DEF Stored

-----------------------------------------------------------------------------
(* Claims                                                                  *)

\* A claim stays with an approved row.
LEMMA ClaimStays ==
  ASSUME TypeOK, ClaimInv, [Next]_vars, NEW a \in Approvals
  PROVE  /\ row'[a].consumed => row'[a].status = "approved"
         /\ row[a].consumed => row'[a].consumed
<1>1. row[a] \in Row /\ RowChange(a) /\ (row[a].consumed => row[a].status = "approved")
  BY RowStep DEF TypeOK, ClaimInv
<1>2. CASE row'[a] = row[a]
  BY <1>1, <1>2
<1>3. CASE row[a].status = "pending" /\ row'[a].consumed = row[a].consumed
  BY <1>1, <1>3
<1>4. CASE row[a].status = "absent" /\ row'[a].consumed = FALSE
  BY <1>1, <1>4
<1>5. CASE Claimable(a) /\ row'[a] = [row[a] EXCEPT !.consumed = TRUE]
  BY <1>1, <1>5 DEF Row, Claimable
<1>6. CASE row[a].status = "pending" /\ row'[a] = [row[a] EXCEPT !.status = "expired"]
  BY <1>1, <1>3, <1>6 DEF Row
<1>7. ASSUME NEW status, row[a].status = "pending", row'[a] = [row[a] EXCEPT !.status = status]
      PROVE  row'[a].consumed = row[a].consumed
  BY <1>1, <1>7 DEF Row
<1>8. CASE /\ row[a].status = "absent"
           /\ \E t \in Turns :
                row'[a] = [status |-> "pending", rt |-> rt[t], by |-> t, consumed |-> FALSE]
  BY <1>4, <1>8
<1>9. CASE /\ row[a].status = "pending"
           /\ \E status \in {"approved", "rejected"} : row'[a] = [row[a] EXCEPT !.status = status]
  BY <1>3, <1>7, <1>9
<1> QED
  BY <1>1, <1>2, <1>5, <1>6, <1>8, <1>9 DEF RowChange

\* A call that is dispatched was so before, or takes the claim now, alone.
LEMMA DispatchOrigin ==
  ASSUME TypeOK, [Next]_vars, NEW c \in Calls, call'[c].pc = "dispatched"
  PROVE  \/ call'[c] = call[c]
         \/ /\ ~row[call'[c].a].consumed
            /\ row'[call'[c].a].consumed
            /\ \A b \in Calls : b # c => call'[b] = call[b]
<1> USE DEF turnVars, waitVars
<1>1. ASSUME NEW b \in Calls, NEW t \in Turns, NEW a \in Approvals, CallTool(b, t, a)
      PROVE  call'[c] = call[c]
  BY <1>1 DEF CallTool, TypeOK
<1>2. ASSUME NEW b \in Calls, GateReads(b) PROVE call'[c] = call[c]
  <2>1. call[b] \in ToolCall
    BY <1>2, CallFields DEF GateReads
  <2>2. PICK pc \in {"claiming", "refused"} : call' = [call EXCEPT ![b] = [call[b] EXCEPT !.pc = pc]]
    BY <1>2, <2>1 DEF GateReads, TypeOK
  <2>3. [call[b] EXCEPT !.pc = pc].pc = pc
    BY <2>1 DEF ToolCall
  <2> QED
    BY <2>2, <2>3 DEF TypeOK
<1>3. ASSUME NEW b \in Calls, GateClaims(b), call'[c] # call[c]
      PROVE  /\ ~row[call'[c].a].consumed
             /\ row'[call'[c].a].consumed
             /\ \A x \in Calls : x # c => call'[x] = call[x]
  <2>1. call[b] \in ToolCall /\ call[b].a \in Approvals
    BY <1>3, CallFields DEF GateClaims
  <2>2. PICK pc \in {"dispatched", "refused"} :
          /\ call' = [call EXCEPT ![b] = [call[b] EXCEPT !.pc = pc]]
          /\ pc = "dispatched" => Claimable(call[b].a) /\ row' = [row EXCEPT ![call[b].a].consumed = TRUE]
    BY <1>3, <2>1 DEF GateClaims, TypeOK
  <2>3. b = c
    BY <1>3, <2>2 DEF TypeOK
  <2>4. call'[c] = [call[c] EXCEPT !.pc = pc]
    BY <2>2, <2>3 DEF TypeOK
  <2>5. call'[c].a = call[c].a /\ pc = "dispatched"
    BY <2>1, <2>3, <2>4 DEF ToolCall
  <2>6. \A x \in Calls : x # c => call'[x] = call[x]
    BY <2>2, <2>3 DEF TypeOK
  <2>7. row[call[c].a] \in Row
    BY <2>1, <2>3 DEF TypeOK
  <2> QED
    BY <2>1, <2>2, <2>3, <2>5, <2>6, <2>7 DEF Claimable, Row, TypeOK
<1>4. CASE UNCHANGED call
  BY <1>4
<1> QED
  BY <1>1, <1>2, <1>3, <1>4, ZenonT(30)
  DEF Next, RequestStep, Acquire, Bind, Abort, Close, LeaseLapses, EndExecution, AbortSession, Crash,
      Request, ReadFirst, CreateChecks, CreateInserts, ReadAgain, Register, TtlFires, Poll, Overdue,
      ExpireById, SweepExpired, DecideStarts, ResolveReads, ResolveWrites, DecideSettles, vars

\* Each claim has one holder.
LEMMA ClaimStep == TypeOK /\ ClaimInv /\ [Next]_vars => ClaimInv'
<1> SUFFICES ASSUME TypeOK, ClaimInv, [Next]_vars PROVE ClaimInv'
  OBVIOUS
<1>1. \A a \in Approvals : row'[a].consumed => row'[a].status = "approved"
  BY ClaimStays
<1>2. ASSUME NEW c \in Calls, call'[c].pc = "dispatched" PROVE row'[call'[c].a].consumed
  <2>1. CASE call'[c] = call[c]
    <3>1. row[call[c].a].consumed
      BY <1>2, <2>1 DEF ClaimInv
    <3>2. call[c].a \in Approvals
      BY <1>2, <2>1, CallFields
    <3> QED
      BY <2>1, <3>1, <3>2, ClaimStays
  <2> QED
    BY <1>2, <2>1, DispatchOrigin
<1>3. ASSUME NEW b \in Calls, NEW c \in Calls, b # c, call'[b].pc = "dispatched",
             call'[c].pc = "dispatched", call'[b].a = call'[c].a
      PROVE  FALSE
  <2>1. ASSUME NEW x \in Calls, NEW y \in Calls, x # y, call'[x].pc = "dispatched",
               call'[y].pc = "dispatched", call'[x].a = call'[y].a
        PROVE  call'[x] = call[x]
    <3> SUFFICES ASSUME call'[x] # call[x] PROVE FALSE
      OBVIOUS
    <3>1. ~row[call'[x].a].consumed /\ call'[y] = call[y]
      BY <2>1, DispatchOrigin
    <3>2. row[call[y].a].consumed
      BY <2>1, <3>1 DEF ClaimInv
    <3> QED
      BY <2>1, <3>1, <3>2
  <2>2. call'[b] = call[b] /\ call'[c] = call[c]
    BY <1>3, <2>1
  <2> QED
    BY <1>3, <2>2 DEF ClaimInv
<1> QED
  BY <1>1, <1>2, <1>3 DEF ClaimInv

-----------------------------------------------------------------------------
(* Answers and calls                                                       *)

\* A request keeps its outcome, or settles now.
SettlesNow(t, a) == req[t][a] # "settled" /\ req'[t][a] = "settled"
Keeps(t, a) ==
  outcome'[t][a] = outcome[t][a] /\ (req'[t][a] = "settled" <=> req[t][a] = "settled")

\* The steps of a request either settle it or keep what it answered.
LEMMA RequestKeeps ==
  ASSUME TypeOK, NEW u \in Turns, NEW b \in Approvals, RequestStep(u, b),
         NEW t \in Turns, NEW a \in Approvals
  PROVE  SettlesNow(t, a) \/ Keeps(t, a)
<1> USE DEF turnVars, waitVars
<1>1. ASSUME NEW from, from # "settled", NEW to, to # "settled", At(u, b, from, to), UNCHANGED outcome
      PROVE  Keeps(t, a)
  BY <1>1, AtMoves DEF Keeps
<1>2. ASSUME NEW o, req[u][b] # "settled", Settle(u, b, o)
      PROVE  SettlesNow(t, a) \/ Keeps(t, a)
  <2>1. CASE t = u /\ a = b
    BY <1>2, <2>1 DEF Settle, TypeOK, SettlesNow
  <2>2. CASE ~(t = u /\ a = b)
    BY <1>2, <2>2, SettleMoves DEF Keeps
  <2> QED
    BY <2>1, <2>2
<1>3. CASE Request(u, b)
  BY <1>1, <1>3 DEF Request, None
<1>4. CASE ReadFirst(u, b)
  BY <1>1, <1>2, <1>4 DEF ReadFirst
<1>5. CASE CreateChecks(u, b)
  BY <1>1, <1>5 DEF CreateChecks
<1>6. CASE CreateInserts(u, b)
  BY <1>1, <1>6 DEF CreateInserts
<1>7. CASE ReadAgain(u, b)
  BY <1>1, <1>2, <1>7 DEF ReadAgain
<1>8. CASE Register(u, b)
  BY <1>1, <1>2, <1>8 DEF Register
<1>9. CASE TtlFires(u, b) \/ Poll(u, b)
  BY <1>2, <1>9 DEF TtlFires, TimerRuns, Poll
<1> QED
  BY <1>3, <1>4, <1>5, <1>6, <1>7, <1>8, <1>9 DEF RequestStep

\* Every step settles a request or keeps what it answered.
LEMMA AnswerStep ==
  ASSUME TypeOK, [Next]_vars, NEW t \in Turns, NEW a \in Approvals
  PROVE  SettlesNow(t, a) \/ Keeps(t, a)
<1> USE DEF turnVars, waitVars
<1>1. ASSUME NEW S, RejectWaits(S)
      PROVE  SettlesNow(t, a) \/ Keeps(t, a)
  BY <1>1 DEF RejectWaits, Waiting, SettlesNow, Keeps
<1>2. ASSUME NEW r \in Replicas, Crash(r)
      PROVE  SettlesNow(t, a) \/ Keeps(t, a)
  BY <1>2 DEF Crash, SettlesNow, Keeps
<1>3. ASSUME NEW d \in Deciders, DecideSettles(d)
      PROVE  SettlesNow(t, a) \/ Keeps(t, a)
  <2> DEFINE now == IF bound[dec[d].at] = NoTurn THEN {}
                    ELSE {u \in dec[d].eligible : req[u][dec[d].a] = "waiting"}
  <2>1. /\ \A u \in now : req[u][dec[d].a] = "waiting"
        /\ req' = [u \in Turns |-> IF u \in now THEN [req[u] EXCEPT ![dec[d].a] = "settled"] ELSE req[u]]
        /\ outcome' = [u \in Turns |-> IF u \in now THEN [outcome[u] EXCEPT ![dec[d].a] = dec[d].choice]
                                       ELSE outcome[u]]
    BY <1>3 DEF DecideSettles
  <2> HIDE DEF now
  <2>2. CASE t \in now /\ a = dec[d].a
    BY <2>1, <2>2 DEF TypeOK, SettlesNow
  <2>3. CASE ~(t \in now /\ a = dec[d].a)
    BY <2>1, <2>3 DEF TypeOK, Keeps
  <2> QED
    BY <2>2, <2>3
<1>4. ASSUME UNCHANGED waitVars PROVE Keeps(t, a)
  BY <1>4 DEF Keeps
<1>5. ASSUME NEW u \in Turns, Acquire(u) \/ Bind(u) \/ Abort(u) \/ Close(u)
      PROVE  SettlesNow(t, a) \/ Keeps(t, a)
  BY <1>1, <1>4, <1>5 DEF Acquire, Bind, Abort, Close
<1>6. ASSUME NEW r \in Replicas, AbortSession(r)
      PROVE  SettlesNow(t, a) \/ Keeps(t, a)
  BY <1>1, <1>6 DEF AbortSession
<1>7. ASSUME NEW d \in Deciders,
             \/ \E r \in Replicas, b \in Approvals, choice \in Decisions : DecideStarts(d, r, b, choice)
             \/ ResolveReads(d) \/ ResolveWrites(d)
      PROVE  Keeps(t, a)
  BY <1>4, <1>7 DEF DecideStarts, ResolveReads, ResolveWrites
<1>8. CASE \/ LeaseLapses \/ EndExecution \/ SweepExpired \/ UNCHANGED vars
           \/ \E b \in Approvals : Overdue(b) \/ ExpireById(b)
  BY <1>4, <1>8 DEF LeaseLapses, EndExecution, SweepExpired, Overdue, ExpireById, vars
<1>9. ASSUME NEW c \in Calls,
             \/ \E u \in Turns, b \in Approvals : CallTool(c, u, b)
             \/ GateReads(c) \/ GateClaims(c)
      PROVE  Keeps(t, a)
  BY <1>4, <1>9 DEF CallTool, GateReads, GateClaims
<1> QED
  BY <1>2, <1>3, <1>5, <1>6, <1>7, <1>8, <1>9, RequestKeeps DEF Next

\* A request that has not settled has no outcome.
LEMMA WaitStep == TypeOK /\ WaitInv /\ [Next]_vars => WaitInv'
BY AnswerStep DEF WaitInv, SettlesNow, Keeps

\* What a turn heard stays heard.
LEMMA HeardStays ==
  ASSUME TypeOK, WaitInv, [Next]_vars, NEW t \in Turns, NEW a \in Approvals, outcome[t][a] = "approve"
  PROVE  outcome'[t][a] = "approve"
BY AnswerStep DEF WaitInv, SettlesNow, Keeps, None

\* The turn that asked stays with a row that was decided.
LEMMA AskerStays ==
  ASSUME TypeOK, [Next]_vars, NEW a \in Approvals, row[a].status # "absent"
  PROVE  row'[a].by = row[a].by
<1>1. row[a] \in Row /\ RowChange(a)
  BY RowStep DEF TypeOK
<1> QED
  BY <1>1 DEF RowChange, Row

\* A call becomes one under way when its turn has heard its approval, and goes on to
\* claim when that turn asked for it.
LEMMA CallOrigin ==
  ASSUME TypeOK, [Next]_vars, NEW c \in Calls, call'[c].pc \in {"called", "claiming"}
  PROVE  \/ call'[c] = call[c]
         \/ /\ call'[c].pc = "called" /\ call'[c] \in ToolCall
            /\ outcome[call'[c].t][call'[c].a] = "approve"
         \/ /\ call[c].pc = "called" /\ Matches(c)
            /\ call'[c].t = call[c].t /\ call'[c].a = call[c].a
<1> USE DEF turnVars, waitVars
<1>1. ASSUME NEW b \in Calls, NEW t \in Turns, NEW a \in Approvals, CallTool(b, t, a)
      PROVE  \/ call'[c] = call[c]
             \/ /\ call'[c].pc = "called" /\ call'[c] \in ToolCall
                /\ outcome[call'[c].t][call'[c].a] = "approve"
  <2>1. [pc |-> "called", t |-> t, a |-> a] \in ToolCall
    BY DEF ToolCall
  <2> QED
    BY <1>1, <2>1 DEF CallTool, TypeOK
<1>2. ASSUME NEW b \in Calls, GateReads(b), call'[c] # call[c]
      PROVE  /\ call[c].pc = "called" /\ Matches(c)
             /\ call'[c].t = call[c].t /\ call'[c].a = call[c].a
  <2>1. call[b] \in ToolCall
    BY <1>2, CallFields DEF GateReads
  <2>2. b = c
    BY <1>2 DEF GateReads, TypeOK
  <2>3. call'[c] = [call[c] EXCEPT !.pc = IF Matches(c) THEN "claiming" ELSE "refused"]
    BY <1>2, <2>2 DEF GateReads, TypeOK
  <2> QED
    BY <1>2, <2>1, <2>2, <2>3 DEF GateReads, ToolCall
<1>3. ASSUME NEW b \in Calls, GateClaims(b)
      PROVE  call'[c] = call[c]
  <2>1. call[b] \in ToolCall
    BY <1>3, CallFields DEF GateClaims
  <2>2. PICK pc \in {"dispatched", "refused"} : call' = [call EXCEPT ![b] = [call[b] EXCEPT !.pc = pc]]
    BY <1>3, <2>1 DEF GateClaims, TypeOK
  <2>3. [call[b] EXCEPT !.pc = pc].pc = pc
    BY <2>1 DEF ToolCall
  <2> QED
    BY <2>2, <2>3 DEF TypeOK
<1>4. CASE UNCHANGED call
  BY <1>4
<1> QED
  BY <1>1, <1>2, <1>3, <1>4, ZenonT(60)
  DEF Next, RequestStep, Acquire, Bind, Abort, Close, LeaseLapses, EndExecution, AbortSession, Crash,
      Request, ReadFirst, CreateChecks, CreateInserts, ReadAgain, Register, TtlFires, Poll, Overdue,
      ExpireById, SweepExpired, DecideStarts, ResolveReads, ResolveWrites, DecideSettles, vars

\* A call under way stays that of a turn that heard, and asked.
LEMMA CallStep ==
  TypeOK /\ DurableBeforeResume /\ WaitInv /\ CallInv /\ [Next]_vars => CallInv'
<1> SUFFICES ASSUME TypeOK, DurableBeforeResume, WaitInv, CallInv, [Next]_vars,
                    NEW c \in Calls, call'[c].pc \in {"called", "claiming"}
             PROVE  /\ outcome'[call'[c].t][call'[c].a] = "approve"
                    /\ call'[c].pc = "claiming" => row'[call'[c].a].by = call'[c].t
  BY DEF CallInv
<1>1. CASE call'[c] = call[c]
  <2>1. /\ call[c].t \in Turns /\ call[c].a \in Approvals
        /\ outcome[call[c].t][call[c].a] = "approve"
    BY <1>1, CallFields DEF CallInv, ToolCall
  <2>2. row[call[c].a].status = "approved"
    BY <2>1 DEF DurableBeforeResume
  <2>3. row'[call[c].a].by = row[call[c].a].by
    BY <2>1, <2>2, AskerStays
  <2> QED
    BY <1>1, <2>1, <2>3, HeardStays DEF CallInv
<1>2. CASE /\ call'[c].pc = "called" /\ call'[c] \in ToolCall
           /\ outcome[call'[c].t][call'[c].a] = "approve"
  BY <1>2, HeardStays DEF ToolCall
<1>3. CASE /\ call[c].pc = "called" /\ Matches(c)
           /\ call'[c].t = call[c].t /\ call'[c].a = call[c].a
  <2>1. /\ call[c].t \in Turns /\ call[c].a \in Approvals
        /\ outcome[call[c].t][call[c].a] = "approve"
    BY <1>3, CallFields DEF CallInv, ToolCall
  <2>2. row'[call[c].a].by = call[c].t
    BY <1>3, <2>1, AskerStays DEF Matches
  <2> QED
    BY <1>3, <2>1, <2>2, HeardStays
<1> QED
  BY <1>1, <1>2, <1>3, CallOrigin

-----------------------------------------------------------------------------
(* The flow                                                                *)

\* The inductive invariant: runtimes, creations, prompts, decisions, claims, waits and calls.
THEOREM FlowCorrect == Spec => []FlowInvariant
<1>1. Init => FlowInvariant
  <2> SUFFICES ASSUME Init PROVE FlowInvariant
    OBVIOUS
  <2>1. TypeOK
    BY DEF Init, TypeOK, Row, Places, Outcomes, DecisionStates, CallStates
  <2>2. RuntimeInv /\ CreateInv /\ NoOrphanPrompt /\ SettleInv /\ DurableBeforeResume /\ ClaimInv
    BY DEF Init, RuntimeInv, CreateInv, NoOrphanPrompt, SettleInv, DurableBeforeResume, ClaimInv, None
  <2>3. WaitInv /\ CallInv
    BY DEF Init, WaitInv, CallInv
  <2> QED
    BY <2>1, <2>2, <2>3 DEF FlowInvariant
<1>2. FlowInvariant /\ [Next]_vars => FlowInvariant'
  BY TypeStep, RuntimeStep, CreateStep, PromptStep, SettleStep, DurableStep, ClaimStep, WaitStep, CallStep
  DEF FlowInvariant
<1> QED
  BY <1>1, <1>2, PTL DEF Spec

\* No prompt outlives its execution, whatever stop crosses its creation.
THEOREM NoOrphanPromptHolds == Spec => []NoOrphanPrompt
<1>1. FlowInvariant => NoOrphanPrompt
  BY DEF FlowInvariant
<1> QED
  BY <1>1, FlowCorrect, PTL

\* A turn goes on with an approval only after the approval is committed.
THEOREM DurableBeforeResumeHolds == Spec => []DurableBeforeResume
<1>1. FlowInvariant => DurableBeforeResume
  BY DEF FlowInvariant
<1> QED
  BY <1>1, FlowCorrect, PTL

\* One approval permits one dispatch, whatever calls present it.
THEOREM OneDispatchHolds == Spec => []OneDispatch
<1>1. ClaimInv => OneDispatch
  <2> SUFFICES ASSUME ClaimInv, NEW a \in Approvals
               PROVE  Cardinality({c \in Calls : call[c].pc = "dispatched" /\ call[c].a = a}) <= 1
    BY DEF OneDispatch
  <2> DEFINE holders == {c \in Calls : call[c].pc = "dispatched" /\ call[c].a = a}
  <2>1. CASE holders = {}
    BY <2>1, FS_EmptySet
  <2>2. CASE holders # {}
    <3>1. PICK c \in holders : TRUE
      BY <2>2
    <3>2. holders = {c}
      BY <3>1 DEF ClaimInv
    <3>3. Cardinality({c}) = 1
      BY FS_Singleton
    <3> HIDE DEF holders
    <3>4. Cardinality(holders) = 1
      BY <3>2, <3>3
    <3> QED
      BY <3>4 DEF holders
  <2> QED
    BY <2>1, <2>2
<1>2. FlowInvariant => ClaimInv
  BY DEF FlowInvariant
<1> QED
  BY <1>1, <1>2, FlowCorrect, PTL

\* A decision is written only under the execution that the prompt belongs to.
THEOREM DecidedUnderExecutionHolds == Spec => DecidedUnderExecution
<1>1. FlowInvariant /\ [Next]_vars =>
        [\A a \in Approvals :
           row[a].status = "pending" /\ row'[a].status \in {"approved", "rejected"} =>
             exec.status \in {"active", "lapsed"} /\ exec.rt = row[a].rt]_vars
  BY DEF FlowInvariant, NoOrphanPrompt
<1> QED
  BY <1>1, FlowCorrect, PTL DEF Spec, DecidedUnderExecution
-----------------------------------------------------------------------------
(* The flow implements Consent                                             *)

\* What the turns have heard, and what went ahead, stays.
SameHeard ==
  \A t \in Turns, a \in Approvals : outcome'[t][a] = "approve" <=> outcome[t][a] = "approve"
Holders(a) == {c \in Calls : call[c].pc = "dispatched" /\ call[c].a = a}
SameRan == \A a \in Approvals : Holders(a)' = Holders(a)

\* The parts of Consent that such a step leaves alone.
LEMMA SameParts ==
  /\ SameHeard => [t \in Turns |-> {a \in Approvals : outcome'[t][a] = "approve"}]
                  = [t \in Turns |-> {a \in Approvals : outcome[t][a] = "approve"}]
  /\ SameRan => [a \in Approvals |-> {c \in Calls : call'[c].pc = "dispatched" /\ call'[c].a = a}]
                = [a \in Approvals |-> {c \in Calls : call[c].pc = "dispatched" /\ call[c].a = a}]
  /\ UNCHANGED row => /\ [a \in Approvals |-> row'[a].status] = [a \in Approvals |-> row[a].status]
                      /\ [a \in Approvals |-> row'[a].by] = [a \in Approvals |-> row[a].by]
                      /\ {a \in Approvals : row'[a].consumed} = {a \in Approvals : row[a].consumed}
<1>1. ASSUME SameHeard, NEW t \in Turns
      PROVE  {a \in Approvals : outcome'[t][a] = "approve"} = {a \in Approvals : outcome[t][a] = "approve"}
  BY <1>1 DEF SameHeard
<1>2. ASSUME SameRan, NEW a \in Approvals
      PROVE  {c \in Calls : call'[c].pc = "dispatched" /\ call'[c].a = a}
             = {c \in Calls : call[c].pc = "dispatched" /\ call[c].a = a}
  BY <1>2 DEF SameRan, Holders
<1> QED
  BY <1>1, <1>2

\* A step that changes no row, and nothing that is heard or runs, is none of Consent.
LEMMA QuietStep ==
  ASSUME UNCHANGED row, SameHeard, SameRan
  PROVE  UNCHANGED Promise!consentVars
BY SameParts DEF Promise!consentVars

\* Rows that expire are questions nobody answered.
LEMMA ExpireStep ==
  ASSUME TypeOK, NEW S \in SUBSET Approvals, \A a \in S : row[a].status = "pending", row' = Expired(S),
         SameHeard, SameRan
  PROVE  Promise!ConsentNext
<1>1. \A a \in Approvals : /\ row'[a].status = IF a \in S THEN "expired" ELSE row[a].status
                          /\ row'[a].by = row[a].by /\ row'[a].consumed = row[a].consumed
  BY DEF TypeOK, Row, Expired
<1>2. [a \in Approvals |-> row'[a].status]
      = [a \in Approvals |-> IF a \in S THEN "expired" ELSE [b \in Approvals |-> row[b].status][a]]
  BY <1>1
<1>3. /\ [a \in Approvals |-> row'[a].by] = [a \in Approvals |-> row[a].by]
      /\ {a \in Approvals : row'[a].consumed} = {a \in Approvals : row[a].consumed}
  BY <1>1
<1>4. Promise!Expire(S)
  BY <1>2, <1>3, SameParts DEF Promise!Expire
<1> QED
  BY <1>4 DEF Promise!ConsentNext

\* A row that is made is a question of the turn that made it.
LEMMA AskStep ==
  ASSUME TypeOK, ClaimInv, NEW t \in Turns, NEW a \in Approvals, row[a].status = "absent",
         row' = [row EXCEPT ![a] = [status |-> "pending", rt |-> rt[t], by |-> t, consumed |-> FALSE]],
         SameHeard, SameRan
  PROVE  Promise!ConsentNext
<1>1. row \in [Approvals -> Row] /\ ~row[a].consumed
  BY DEF TypeOK, ClaimInv
<1>2. /\ [b \in Approvals |-> row'[b].status] = [[b \in Approvals |-> row[b].status] EXCEPT ![a] = "pending"]
      /\ [b \in Approvals |-> row'[b].by] = [[b \in Approvals |-> row[b].by] EXCEPT ![a] = t]
      /\ {b \in Approvals : row'[b].consumed} = {b \in Approvals : row[b].consumed}
  BY <1>1
<1>3. Promise!Ask(t, a)
  BY <1>2, SameParts DEF Promise!Ask
<1> QED
  BY <1>3 DEF Promise!ConsentNext

\* A decision that is written is the answer.
LEMMA DecideStep ==
  ASSUME TypeOK, NEW a \in Approvals, NEW v \in {"approved", "rejected"}, row[a].status = "pending",
         row' = [row EXCEPT ![a].status = v], SameHeard, SameRan
  PROVE  Promise!ConsentNext
<1>1. row \in [Approvals -> Row]
  BY DEF TypeOK
<1>2. \A b \in Approvals : /\ row'[b].status = IF b = a THEN v ELSE row[b].status
                          /\ row'[b].by = row[b].by /\ row'[b].consumed = row[b].consumed
  BY <1>1 DEF Row
<1>3. /\ [b \in Approvals |-> row'[b].status] = [[b \in Approvals |-> row[b].status] EXCEPT ![a] = v]
      /\ [b \in Approvals |-> row'[b].by] = [b \in Approvals |-> row[b].by]
      /\ {b \in Approvals : row'[b].consumed} = {b \in Approvals : row[b].consumed}
  BY <1>2
<1>4. Promise!Decide(a)
  BY <1>3, SameParts DEF Promise!Decide
<1> QED
  BY <1>4 DEF Promise!ConsentNext

\* Waits that settle with an answer hear of it, and a consent is heard once it was given.
LEMMA HearStep ==
  ASSUME TypeOK, WaitInv, NEW S \in SUBSET Turns, NEW a \in Approvals, NEW o,
         \A t \in S : req[t][a] # "settled", o = "approve" => row[a].status = "approved",
         outcome' = [t \in Turns |-> IF t \in S THEN [outcome[t] EXCEPT ![a] = o] ELSE outcome[t]],
         UNCHANGED row, SameRan
  PROVE  Promise!ConsentNext \/ UNCHANGED Promise!consentVars
<1>1. \A t \in Turns, b \in Approvals :
        outcome'[t][b] = IF t \in S /\ b = a THEN o ELSE outcome[t][b]
  BY DEF TypeOK
<1>2. CASE o = "approve"
  <2>1. \A t \in Turns : {b \in Approvals : outcome'[t][b] = "approve"}
                        = IF t \in S THEN {b \in Approvals : outcome[t][b] = "approve"} \cup {a}
                          ELSE {b \in Approvals : outcome[t][b] = "approve"}
    BY <1>1, <1>2
  <2>2. [t \in Turns |-> {b \in Approvals : outcome'[t][b] = "approve"}]
        = [t \in Turns |-> IF t \in S THEN [u \in Turns |-> {b \in Approvals : outcome[u][b] = "approve"}][t] \cup {a}
                          ELSE [u \in Turns |-> {b \in Approvals : outcome[u][b] = "approve"}][t]]
    BY <2>1
  <2>3. Promise!Hear(S, a)
    BY <1>2, <2>2, SameParts DEF Promise!Hear
  <2> QED
    BY <2>3 DEF Promise!ConsentNext
<1>3. CASE o # "approve"
  <2>1. SameHeard
    BY <1>1, <1>3 DEF SameHeard, WaitInv, None
  <2> QED
    BY <2>1, QuietStep
<1> QED
  BY <1>2, <1>3

\* A claim uses up the consent of the turn that asked and heard.
LEMMA UseStep ==
  ASSUME TypeOK, CallInv, NEW c \in Calls, GateClaims(c)
  PROVE  Promise!ConsentNext \/ UNCHANGED Promise!consentVars
<1> USE DEF turnVars, waitVars
<1>1. PICK a \in Approvals, t \in Turns :
        /\ call[c] \in ToolCall /\ a = call[c].a /\ t = call[c].t
        /\ outcome[t][a] = "approve" /\ row[a].by = t
  BY CallFields DEF GateClaims, CallInv, ToolCall
<1>2. PICK to \in {"dispatched", "refused"} :
        /\ call' = [call EXCEPT ![c].pc = to]
        /\ \/ Claimable(a) /\ row' = [row EXCEPT ![a].consumed = TRUE]
           \/ to = "refused" /\ UNCHANGED row
  BY <1>1 DEF GateClaims
<1>3. SameHeard
  BY DEF GateClaims, SameHeard
<1>4. \A d \in Calls : /\ d # c => call'[d] = call[d]
                      /\ call'[c].pc = to /\ call'[c].a = a
  BY <1>1, <1>2 DEF TypeOK, ToolCall
<1>5. ASSUME NEW b \in Approvals
      PROVE  Holders(b)' = IF to = "dispatched" /\ b = a THEN Holders(b) \cup {c} ELSE Holders(b)
  BY <1>4 DEF Holders, GateClaims
<1>6. CASE to = "refused" /\ UNCHANGED row
  <2>1. SameRan
    BY <1>5, <1>6 DEF SameRan
  <2> QED
    BY <1>3, <1>6, <2>1, QuietStep
<1>7. CASE Claimable(a) /\ row' = [row EXCEPT ![a].consumed = TRUE]
  <2>1. row \in [Approvals -> Row]
    BY DEF TypeOK
  <2>2. \A b \in Approvals : /\ row'[b].consumed = IF b = a THEN TRUE ELSE row[b].consumed
                            /\ row'[b].by = row[b].by /\ row'[b].status = row[b].status
    BY <1>1, <1>7, <2>1 DEF Row
  <2>3. /\ [b \in Approvals |-> row'[b].status] = [b \in Approvals |-> row[b].status]
        /\ [b \in Approvals |-> row'[b].by] = [b \in Approvals |-> row[b].by]
        /\ {b \in Approvals : row'[b].consumed} = {b \in Approvals : row[b].consumed} \cup {a}
    BY <1>1, <2>2
  <2>4. \/ [b \in Approvals |-> Holders(b)'] = [b \in Approvals |-> Holders(b)]
        \/ [b \in Approvals |-> Holders(b)'] = [[b \in Approvals |-> Holders(b)] EXCEPT ![a] = @ \cup {c}]
    BY <1>1, <1>5
  <2>5. row[a].status = "approved" /\ ~row[a].consumed
    BY <1>7 DEF Claimable
  <2>6. \E u \in Turns : /\ [b \in Approvals |-> row[b].by][a] = u
                        /\ a \in [v \in Turns |-> {b \in Approvals : outcome[v][b] = "approve"}][u]
    BY <1>1
  <2>7. Promise!Use(c, a)
    BY <1>1, <1>3, <2>3, <2>4, <2>5, <2>6, SameParts DEF Promise!Use, Holders
  <2> QED
    BY <2>7 DEF Promise!ConsentNext
<1> QED
  BY <1>2, <1>6, <1>7

\* A step of a request asks, hears, or does nothing for Consent.
LEMMA RequestImplements ==
  ASSUME TypeOK, ClaimInv, WaitInv, NEW t \in Turns, NEW a \in Approvals, RequestStep(t, a)
  PROVE  Promise!ConsentNext \/ UNCHANGED Promise!consentVars
<1> USE DEF turnVars, waitVars
<1>0. SameRan
  BY DEF SameRan, Holders, RequestStep, Request, ReadFirst, CreateChecks, CreateInserts, ReadAgain,
         Register, TtlFires, Poll
<1>1. ASSUME UNCHANGED <<row, outcome>> PROVE UNCHANGED Promise!consentVars
  BY <1>0, <1>1, QuietStep DEF SameHeard
<1>2. ASSUME NEW o, req[t][a] # "settled", Settle(t, a, o), UNCHANGED row,
             o = "approve" => row[a].status = "approved"
      PROVE  Promise!ConsentNext \/ UNCHANGED Promise!consentVars
  <2>1. outcome' = [u \in Turns |-> IF u \in {t} THEN [outcome[u] EXCEPT ![a] = o] ELSE outcome[u]]
    BY <1>2 DEF Settle, TypeOK
  <2>2. {t} \in SUBSET Turns /\ \A u \in {t} : req[u][a] # "settled"
    BY <1>2
  <2> QED
    BY <1>0, <1>2, <2>1, <2>2, HearStep
<1>3. \A s \in Stored : StoredOutcome[s] = "approve" => s = "approved"
  BY DEF Stored, StoredOutcome
<1>4. CASE Request(t, a) \/ CreateChecks(t, a)
  BY <1>1, <1>4 DEF Request, CreateChecks
<1>5. CASE ReadFirst(t, a)
  BY <1>1, <1>2, <1>3, <1>5 DEF ReadFirst
<1>6. CASE CreateInserts(t, a)
  <2>1. SameHeard
    BY <1>6 DEF CreateInserts, SameHeard
  <2> QED
    BY <1>0, <1>1, <1>6, <2>1, AskStep DEF CreateInserts
<1>7. CASE ReadAgain(t, a)
  BY <1>1, <1>2, <1>3, <1>7 DEF ReadAgain
<1>8. CASE Register(t, a)
  BY <1>1, <1>2, <1>8 DEF Register
<1>9. CASE TtlFires(t, a)
  BY <1>2, <1>9 DEF TtlFires, TimerRuns
<1>10. CASE Poll(t, a)
  BY <1>2, <1>3, <1>10 DEF Poll
<1> QED
  BY <1>4, <1>5, <1>6, <1>7, <1>8, <1>9, <1>10 DEF RequestStep

\* So does a step of a decision, which may also answer.
LEMMA DecisionImplements ==
  ASSUME TypeOK, SettleInv, WaitInv, NEW d \in Deciders,
         ResolveReads(d) \/ ResolveWrites(d) \/ DecideSettles(d)
  PROVE  Promise!ConsentNext \/ UNCHANGED Promise!consentVars
<1> USE DEF turnVars, waitVars
<1>0. SameRan
  BY DEF SameRan, Holders, ResolveReads, ResolveWrites, DecideSettles
<1>1. CASE ResolveReads(d)
  BY <1>0, <1>1, QuietStep DEF ResolveReads, SameHeard
<1>2. CASE ResolveWrites(d)
  <2>1. SameHeard
    BY <1>2 DEF ResolveWrites, SameHeard
  <2>2. CASE UNCHANGED row
    BY <1>0, <2>1, <2>2, QuietStep
  <2>3. CASE ~(UNCHANGED row)
    <3>1. PICK v \in {"approved", "rejected"} :
            row[dec[d].a].status = "pending" /\ row' = [row EXCEPT ![dec[d].a].status = v]
      BY <1>2, <2>3 DEF ResolveWrites, StillPending
    <3>2. dec[d].a \in Approvals
      BY <1>2, DecisionFields DEF ResolveWrites
    <3> QED
      BY <1>0, <2>1, <3>1, <3>2, DecideStep
  <2> QED
    BY <2>2, <2>3
<1>3. CASE DecideSettles(d)
  <2> DEFINE now == IF bound[dec[d].at] = NoTurn THEN {}
                    ELSE {u \in dec[d].eligible : req[u][dec[d].a] = "waiting"}
  <2>1. dec[d] \in Decision /\ dec[d].a \in Approvals /\ dec[d].pc = "settling"
    BY <1>3, DecisionFields DEF DecideSettles, Settles
  <2>2. now \in SUBSET Turns /\ \A u \in now : req[u][dec[d].a] # "settled"
    BY <2>1 DEF Decision
  <2>3. outcome' = [u \in Turns |-> IF u \in now THEN [outcome[u] EXCEPT ![dec[d].a] = dec[d].choice]
                                   ELSE outcome[u]]
    BY <1>3 DEF DecideSettles
  <2>4. dec[d].choice = "approve" => row[dec[d].a].status = "approved"
    BY <2>1 DEF SettleInv, Written
  <2>5. UNCHANGED row
    BY <1>3 DEF DecideSettles
  <2> HIDE DEF now
  <2> QED
    BY <1>0, <2>1, <2>2, <2>3, <2>4, <2>5, HearStep
<1> QED
  BY <1>1, <1>2, <1>3

\* Presenting an approval, and finding that it matches, lets nothing go ahead yet.
LEMMA GateImplements ==
  ASSUME TypeOK, NEW c \in Calls, GateReads(c) \/ \E t \in Turns, a \in Approvals : CallTool(c, t, a)
  PROVE  UNCHANGED Promise!consentVars
<1> USE DEF turnVars, waitVars
<1>1. call[c].pc # "dispatched" /\ call'[c].pc # "dispatched" /\ \A d \in Calls : d # c => call'[d] = call[d]
  <2>1. CASE GateReads(c)
    <3>1. call[c] \in ToolCall
      BY <2>1, CallFields DEF GateReads
    <3>2. PICK pc \in {"claiming", "refused"} : call' = [call EXCEPT ![c] = [call[c] EXCEPT !.pc = pc]]
      BY <2>1, <3>1 DEF GateReads, TypeOK
    <3>3. [call[c] EXCEPT !.pc = pc].pc = pc
      BY <3>1 DEF ToolCall
    <3>4. call[c].pc = "called"
      BY <2>1 DEF GateReads
    <3> QED
      BY <3>2, <3>3, <3>4 DEF TypeOK
  <2>2. CASE \E t \in Turns, a \in Approvals : CallTool(c, t, a)
    BY <2>2 DEF CallTool, TypeOK
  <2> QED
    BY <2>1, <2>2
<1>2. SameRan
  BY <1>1 DEF SameRan, Holders
<1>3. SameHeard /\ UNCHANGED row
  BY DEF SameHeard, GateReads, CallTool
<1> QED
  BY <1>2, <1>3, QuietStep

\* Every step of the flow is a step of Consent, or none.
LEMMA FlowImplements ==
  ASSUME FlowInvariant, [Next]_vars
  PROVE  Promise!ConsentNext \/ UNCHANGED Promise!consentVars
<1> USE DEF turnVars, waitVars, FlowInvariant
<1>1. ASSUME UNCHANGED <<row, call>>, SameHeard PROVE UNCHANGED Promise!consentVars
  BY <1>1, QuietStep DEF SameRan, Holders
<1>2. ASSUME NEW S \in SUBSET Approvals, \A a \in S : row[a].status = "pending", row' = Expired(S),
             UNCHANGED <<outcome, call>>
      PROVE  Promise!ConsentNext
  <2>1. SameHeard /\ SameRan
    BY <1>2 DEF SameHeard, SameRan, Holders
  <2> QED
    BY <1>2, <2>1, ExpireStep
<1>3. ASSUME NEW S, RejectWaits(S), UNCHANGED <<row, call>>
      PROVE  UNCHANGED Promise!consentVars
  <2>1. SameHeard
    BY <1>3 DEF RejectWaits, Waiting, SameHeard, WaitInv, None
  <2> QED
    BY <1>1, <1>3, <2>1
<1>4. ASSUME UNCHANGED <<row, call, outcome>> PROVE UNCHANGED Promise!consentVars
  BY <1>1, <1>4 DEF SameHeard
<1>5. ASSUME NEW runtime
      PROVE  PendingOf(runtime) \in SUBSET Approvals /\ \A a \in PendingOf(runtime) : row[a].status = "pending"
  BY DEF PendingOf
<1>6. ASSUME NEW t \in Turns, Acquire(t) PROVE Promise!ConsentNext \/ UNCHANGED Promise!consentVars
  BY <1>2, <1>4, <1>5, <1>6 DEF Acquire
<1>7. CASE EndExecution
  BY <1>2, <1>5, <1>7 DEF EndExecution
<1>8. ASSUME NEW a \in Approvals, ExpireById(a) PROVE Promise!ConsentNext \/ UNCHANGED Promise!consentVars
  <2>1. CASE row[a].status = "pending" /\ row' = Expired({a})
    <3>1. {a} \in SUBSET Approvals /\ \A b \in {a} : row[b].status = "pending"
      BY <2>1
    <3> QED
      BY <1>2, <1>8, <2>1, <3>1 DEF ExpireById
  <2>2. CASE UNCHANGED row
    BY <1>4, <1>8, <2>2 DEF ExpireById
  <2> QED
    BY <1>8, <2>1, <2>2 DEF ExpireById
<1>9. CASE SweepExpired
  <2>1. /\ {a \in Approvals : Sweepable(a)} \in SUBSET Approvals
        /\ \A a \in {b \in Approvals : Sweepable(b)} : row[a].status = "pending"
    BY DEF Sweepable
  <2> QED
    BY <1>2, <1>9, <2>1 DEF SweepExpired
<1>10. ASSUME NEW t \in Turns, Abort(t) \/ Close(t) PROVE UNCHANGED Promise!consentVars
  BY <1>3, <1>10 DEF Abort, Close
<1>11. ASSUME NEW r \in Replicas, AbortSession(r) PROVE UNCHANGED Promise!consentVars
  BY <1>3, <1>11 DEF AbortSession
<1>12. ASSUME \/ \E t \in Turns : Bind(t)
              \/ LeaseLapses \/ UNCHANGED vars
              \/ \E r \in Replicas : Crash(r)
              \/ \E a \in Approvals : Overdue(a)
              \/ \E d \in Deciders, r \in Replicas, a \in Approvals, choice \in Decisions : DecideStarts(d, r, a, choice)
       PROVE  UNCHANGED Promise!consentVars
  BY <1>4, <1>12 DEF Bind, LeaseLapses, Crash, Overdue, DecideStarts, vars
<1> HIDE DEF turnVars, waitVars, FlowInvariant
<1>13. TypeOK /\ ClaimInv /\ WaitInv /\ CallInv /\ SettleInv
  BY DEF FlowInvariant
<1> QED
  BY <1>6, <1>7, <1>8, <1>9, <1>10, <1>11, <1>12, <1>13,
     RequestImplements, DecisionImplements, GateImplements, UseStep DEF Next

\* The flow implements Consent: for every set of turns, replicas, approvals and calls,
\* whatever crashes or races, a question has one final answer, a turn hears of a consent
\* after it was committed, and one call of the turn that asked and heard goes ahead.
THEOREM FlowImplementsConsent == Spec => ImplementsConsent
<1>1. Init => Promise!ConsentInit
  BY DEF Init, Promise!ConsentInit, None
<1>2. FlowInvariant /\ [Next]_vars => [Promise!ConsentNext]_(Promise!consentVars)
  BY FlowImplements
<1> QED
  BY <1>1, <1>2, FlowCorrect, PTL DEF Spec, ImplementsConsent, Promise!ConsentSpec
=============================================================================
