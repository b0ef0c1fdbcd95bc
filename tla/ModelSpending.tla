--------------------------- MODULE ModelSpending ---------------------------
(***************************************************************************)
(* The monthly model allowance of a tenant: the ledger that every replica  *)
(* writes under one advisory lock per tenant (ModelSpendingStore), and the *)
(* callback of each turn that records a model call before it is dispatched *)
(* and settles the reservation when the turn ends (ModelSpendingCallback). *)
(*                                                                         *)
(* The lock makes each transaction of the store one step.  A write of the  *)
(* callback is two: it is sent, and it lands with or without effect and    *)
(* answer.  Amounts are integers, as in the ledger.  A tenant without a    *)
(* limit makes no reservation and is left out.                             *)
(***************************************************************************)
EXTENDS Naturals, FiniteSets, Functions, TurnIds

CONSTANTS
  Calls,       \* bound: model calls of a turn
  Costs,       \* the known costs of a call
  Unknown,     \* a cost the provider did not report
  Limits,      \* the monthly limits an administrator sets
  Hold,        \* turn_reservation_microusd
  MaxPeriod    \* bound: months

ASSUME FiniteAssumption == IsFiniteSet(Turns) /\ IsFiniteSet(Calls)
ASSUME CostAssumption == Costs \subseteq Nat /\ Unknown \notin Costs
ASSUME PolicyAssumption == Limits \subseteq Nat /\ Limits # {} /\ Hold \in Nat \ {0} /\ MaxPeriod \in Nat

Periods == 0..MaxPeriod

VARIABLES
  period,      \* the current month
  limit,       \* the policy of the tenant
  top,         \* history, per month: the highest limit
  res,         \* model_spending_reservations
  ledger,      \* model_spending_calls
  at,          \* per turn and call: where its handlers are
  sent,        \* per turn and call: the cost that completeCall writes
  ahead,       \* per turn and call: the calls queued before it
  released,    \* per turn: the calls that let the next one proceed
  open,        \* per turn: the map calls of the callback
  cb,          \* per turn: spent, failed, closed, aborted, untracked
  fin,         \* per turn: where finish is
  dispatched   \* history, per turn: the calls sent to the provider

handlerVars == <<at, sent, ahead, released, open>>
callbackVars == <<handlerVars, cb, fin, dispatched>>
policyVars == <<period, limit, top>>
spendingVars == <<policyVars, res, ledger, callbackVars>>

SpendingInit ==
  /\ period = 0
  /\ limit \in Limits
  /\ top = [p \in Periods |-> IF p = 0 THEN limit ELSE 0]
  /\ res = [t \in Turns |-> [status |-> "none", period |-> 0, charged |-> 0, verified |-> FALSE]]
  /\ ledger = [t \in Turns |-> [c \in Calls |-> [status |-> "absent", cost |-> 0]]]
  /\ at = [t \in Turns |-> [c \in Calls |-> "idle"]]
  /\ sent = [t \in Turns |-> [c \in Calls |-> Unknown]]
  /\ ahead = [t \in Turns |-> [c \in Calls |-> {}]]
  /\ released = [t \in Turns |-> {}]
  /\ open = [t \in Turns |-> {}]
  /\ cb = [t \in Turns |-> [spent |-> 0, failed |-> FALSE, closed |-> FALSE, aborted |-> FALSE, untracked |-> FALSE]]
  /\ fin = [t \in Turns |-> "none"]
  /\ dispatched = [t \in Turns |-> {}]

-----------------------------------------------------------------------------
(* The ledger                                                              *)

CostOf(rows) == SumFunctionOnSet([c \in Calls |-> rows[c].cost], Calls)
WithStatus(rows, S) == {c \in Calls : rows[c].status \in S}
GreaterOf(m, n) == IF m > n THEN m ELSE n
SmallerOf(m, n) == IF m < n THEN m ELSE n

InPeriod(p) == {t \in Turns : res[t].status # "none" /\ res[t].period = p}
Charged(p) == SumFunctionOnSet([t \in Turns |-> res[t].charged], InPeriod(p))

AffordableNow == Charged(period) < limit
Affordable == Charged(period) + Hold <= limit

\* The full hold is charged, and usage that is unknown stops the month.
Reserve(t) ==
  /\ res[t].status = "none"
  /\ \A u \in InPeriod(period) : res[u].status # "unknown"
  /\ Affordable
  /\ res' = [res EXCEPT ![t] = [status |-> "reserved", period |-> period, charged |-> Hold, verified |-> FALSE]]
  /\ UNCHANGED <<policyVars, ledger, callbackVars>>

\* The version of the policy makes an update of an administrator atomic.
SetPolicy(l) ==
  /\ limit' = l
  /\ top' = [top EXCEPT ![period] = GreaterOf(@, l)]
  /\ UNCHANGED <<period, res, ledger, callbackVars>>

NextPeriod ==
  /\ period < MaxPeriod
  /\ period' = period + 1
  /\ top' = [top EXCEPT ![period + 1] = limit]
  /\ UNCHANGED <<limit, res, ledger, callbackVars>>

Close(t) ==
  /\ res[t].status = "reserved"
  /\ res' = [res EXCEPT ![t].status = "unknown"]
  /\ UNCHANGED <<policyVars, ledger, callbackVars>>

Reconcile(t, actual) ==
  /\ res[t].status = "unknown"
  /\ res' = [res EXCEPT ![t].status = "settled", ![t].charged = actual, ![t].verified = TRUE]
  /\ UNCHANGED <<policyVars, ledger, callbackVars>>

\* startCall: one open call, known costs below the hold, and the month of the hold.
MayStart(t) ==
  /\ res[t].status = "reserved" /\ res[t].period = period
  /\ WithStatus(ledger[t], {"pending", "unknown", "failed"}) = {}
  /\ CostOf(ledger[t]) < Hold

Record(t, c, status, cost) == [ledger EXCEPT ![t][c] = [status |-> status, cost |-> cost]]

\* completeCall touches a pending call, and the charge of an unsettled reservation.
ChargeAlways(t, rows) == [res EXCEPT ![t].charged = GreaterOf(@, CostOf(rows[t]))]
Charge(t, rows) ==
  IF res[t].status = "reserved" THEN [res EXCEPT ![t].charged = GreaterOf(@, CostOf(rows[t]))] ELSE res

CompleteCall(t, c, cost) ==
  /\ ledger' = IF ledger[t][c].status # "pending" THEN ledger
               ELSE IF cost = Unknown THEN Record(t, c, "unknown", 0) ELSE Record(t, c, "complete", cost)
  /\ res' = Charge(t, ledger')

FailCalls(t, S) ==
  ledger' = [ledger EXCEPT ![t] = [c \in Calls |->
    IF c \in S /\ ledger[t][c].status = "pending" THEN [ledger[t][c] EXCEPT !.status = "failed"] ELSE ledger[t][c]]]

IncompleteReported(rows) == WithStatus(rows, {"unknown"})
Incomplete(rows) == WithStatus(rows, {"pending", "unknown"})

\* finish: unknown usage keeps the hold beside the known costs, a failed call keeps
\* at least the hold, and known usage returns what is left of it.
Settlement(t) ==
  LET rows == ledger[t]
      cost == CostOf(rows)
  IN CASE Incomplete(rows) # {} \/ cb[t].untracked -> [res[t] EXCEPT !.status = "unknown", !.charged = cost + Hold]
       [] Incomplete(rows) = {} /\ ~cb[t].untracked /\ WithStatus(rows, {"failed"}) # {} ->
            [res[t] EXCEPT !.status = "settled", !.charged = GreaterOf(cost, Hold)]
       [] OTHER -> [res[t] EXCEPT !.status = "settled", !.charged = cost]

-----------------------------------------------------------------------------
(* The callback of a turn                                                  *)

Alive(t) == res[t].status # "none" /\ fin[t] # "crashed"

Move(t, c, from, to) == at[t][c] = from /\ at' = [at EXCEPT ![t][c] = to]
Release(t, c) == released' = [released EXCEPT ![t] = @ \cup {c}]
Fail(t) == cb' = [cb EXCEPT ![t].failed = TRUE]

\* assertAllowance
Allowed(t) == ~cb[t].closed /\ ~cb[t].failed /\ ~cb[t].aborted /\ cb[t].spent < Hold

ModelStart(t, c) ==
  /\ Alive(t) /\ Move(t, c, "idle", "queued")
  /\ ahead' = [ahead EXCEPT ![t][c] = {b \in Calls : at[t][b] # "idle"}]
  /\ UNCHANGED <<policyVars, res, ledger, sent, released, open, cb, fin, dispatched>>

\* After its predecessor: the access check, which may refuse, then the allowance.
Admit(t, c) ==
  /\ Alive(t) /\ ahead[t][c] \subseteq released[t]
  /\ \/ Allowed(t) /\ Move(t, c, "queued", "starting") /\ UNCHANGED released
     \/ Move(t, c, "queued", "refused") /\ Release(t, c)
  /\ UNCHANGED <<policyVars, res, ledger, sent, ahead, open, cb, fin, dispatched>>

\* The ledger knows of the call before the provider does.
StartLands(t, c) ==
  /\ at[t][c] = "starting"
  /\ \/ /\ MayStart(t)
        /\ ledger' = Record(t, c, "pending", 0)
        /\ Move(t, c, "starting", "started")
        /\ open' = [open EXCEPT ![t] = @ \cup {c}]
        /\ UNCHANGED released
     \/ /\ ledger' \in {ledger} \cup (IF MayStart(t) THEN {Record(t, c, "pending", 0)} ELSE {})
        /\ Move(t, c, "starting", "refused")
        /\ Release(t, c)
        /\ UNCHANGED open
  /\ UNCHANGED <<policyVars, res, sent, ahead, cb, fin, dispatched>>

\* The second assertAllowance, then the dispatch.
Dispatch(t, c) ==
  /\ Alive(t) /\ at[t][c] = "started"
  /\ \/ /\ Allowed(t)
        /\ Move(t, c, "started", "running")
        /\ dispatched' = [dispatched EXCEPT ![t] = @ \cup {c}]
        /\ UNCHANGED <<released, cb>>
     \/ /\ ~Allowed(t) /\ c \in open[t]
        /\ Move(t, c, "started", "failing") /\ Fail(t)
        /\ UNCHANGED <<released, dispatched>>
     \/ /\ ~Allowed(t) /\ c \notin open[t]
        /\ Move(t, c, "started", "refused") /\ Release(t, c)
        /\ UNCHANGED <<cb, dispatched>>
  /\ UNCHANGED <<policyVars, res, ledger, sent, ahead, open, fin>>

\* handleLLMEnd.  A call that finish has taken over is left alone.
ModelEnds(t, c, cost) ==
  /\ Alive(t) /\ Move(t, c, "running", IF c \in open[t] THEN "ending" ELSE "over")
  /\ sent' = [sent EXCEPT ![t][c] = cost]
  /\ UNCHANGED <<policyVars, res, ledger, ahead, released, open, cb, fin, dispatched>>

\* handleLLMError
ModelFails(t, c) ==
  /\ Alive(t) /\ Move(t, c, "running", IF c \in open[t] THEN "failing" ELSE "over")
  /\ IF c \in open[t] THEN Fail(t) ELSE UNCHANGED cb
  /\ UNCHANGED <<policyVars, res, ledger, sent, ahead, released, open, fin, dispatched>>

ReleaseIfKnown(t, c) ==
  IF sent[t][c] = Unknown THEN UNCHANGED released ELSE Release(t, c)
ReleaseAfter(t, c) == Release(t, c)

EndLands(t, c) ==
  /\ Move(t, c, "ending", "over")
  /\ \/ /\ CompleteCall(t, c, sent[t][c])
        /\ IF sent[t][c] = Unknown THEN Fail(t) ELSE cb' = [cb EXCEPT ![t].spent = @ + sent[t][c]]
     \/ /\ CompleteCall(t, c, sent[t][c]) \/ UNCHANGED <<ledger, res>>
        /\ Fail(t)
  /\ open' = [open EXCEPT ![t] = @ \ {c}]
  /\ ReleaseAfter(t, c)
  /\ UNCHANGED <<policyVars, sent, ahead, fin, dispatched>>

FailLands(t, c) ==
  /\ Move(t, c, "failing", "over")
  /\ FailCalls(t, {c}) \/ UNCHANGED ledger
  /\ open' = [open EXCEPT ![t] = @ \ {c}]
  /\ Release(t, c)
  /\ UNCHANGED <<policyVars, res, sent, ahead, cb, fin, dispatched>>

\* A model started outside the callback, and its event reached the turn.
UntrackedStart(t) ==
  /\ Alive(t) /\ fin[t] = "none"
  /\ cb' = [cb EXCEPT ![t].untracked = TRUE]
  /\ UNCHANGED <<policyVars, res, ledger, handlerVars, fin, dispatched>>

AbortTurn(t) ==
  /\ Alive(t) /\ ~cb[t].aborted
  /\ cb' = [cb EXCEPT ![t].aborted = TRUE]
  /\ UNCHANGED <<policyVars, res, ledger, handlerVars, fin, dispatched>>

Finish(t) ==
  /\ Alive(t) /\ fin[t] = "none"
  /\ cb' = [cb EXCEPT ![t].closed = TRUE]
  /\ released' = [released EXCEPT ![t] = @ \cup open[t]]
  /\ fin' = [fin EXCEPT ![t] = "waiting"]
  /\ UNCHANGED <<policyVars, res, ledger, at, sent, ahead, open, dispatched>>

Writing(t) == {c \in Calls : at[t][c] \in {"starting", "ending", "failing"}}

\* Once no write is in progress, what is still open is failed.  A write error ends
\* the loop, not the settlement.
FinishFails(t) ==
  /\ fin[t] = "waiting" /\ Writing(t) = {}
  /\ \E S \in SUBSET open[t] : FailCalls(t, S)
  /\ open' = [open EXCEPT ![t] = {}]
  /\ fin' = [fin EXCEPT ![t] = "settling"]
  /\ UNCHANGED <<policyVars, res, at, sent, ahead, released, cb, dispatched>>

\* A settlement that fails leaves the reservation as it is.
FinishSettles(t) ==
  /\ fin[t] = "settling"
  /\ \/ res[t].status = "reserved" /\ res' = [res EXCEPT ![t] = Settlement(t)]
     \/ UNCHANGED res
  /\ fin' = [fin EXCEPT ![t] = "done"]
  /\ UNCHANGED <<policyVars, ledger, handlerVars, cb, dispatched>>

\* Writes already sent may still land.
CrashTurn(t) ==
  /\ Alive(t) /\ fin[t] # "done"
  /\ fin' = [fin EXCEPT ![t] = "crashed"]
  /\ UNCHANGED <<policyVars, res, ledger, handlerVars, cb, dispatched>>

-----------------------------------------------------------------------------
CallStep(t, c) ==
  \/ ModelStart(t, c) \/ Admit(t, c) \/ StartLands(t, c) \/ Dispatch(t, c)
  \/ \E cost \in Costs \cup {Unknown} : ModelEnds(t, c, cost)
  \/ ModelFails(t, c) \/ EndLands(t, c) \/ FailLands(t, c)

TurnStep(t) ==
  \/ Reserve(t) \/ Close(t) \/ \E actual \in Costs : Reconcile(t, actual)
  \/ UntrackedStart(t) \/ AbortTurn(t)
  \/ Finish(t) \/ FinishFails(t) \/ FinishSettles(t) \/ CrashTurn(t)

SpendingNext ==
  \/ \E t \in Turns, c \in Calls : CallStep(t, c)
  \/ \E t \in Turns : TurnStep(t)
  \/ \E l \in Limits : SetPolicy(l)
  \/ NextPeriod

SpendingSpec == SpendingInit /\ [][SpendingNext]_spendingVars

\* Handlers run, the database answers, and a turn ends (its watchdog).  Nothing is
\* assumed of the provider.
TurnFairness(t) ==
  /\ WF_spendingVars(Finish(t)) /\ WF_spendingVars(FinishFails(t)) /\ WF_spendingVars(FinishSettles(t))
  /\ \A c \in Calls :
       /\ WF_spendingVars(Admit(t, c)) /\ WF_spendingVars(StartLands(t, c)) /\ WF_spendingVars(Dispatch(t, c))
       /\ WF_spendingVars(EndLands(t, c)) /\ WF_spendingVars(FailLands(t, c))

SpendingLive == SpendingSpec /\ \A t \in Turns : TurnFairness(t)

-----------------------------------------------------------------------------
(* Properties                                                              *)

Places == {"idle", "queued", "refused", "starting", "started", "running", "ending", "failing", "over"}

Reservation == [status : {"none", "reserved", "settled", "unknown"}, period : Periods,
                charged : Nat, verified : BOOLEAN]
LedgerRow == [status : {"absent", "pending", "complete", "unknown", "failed"}, cost : Nat]
Callback == [spent : Nat, failed : BOOLEAN, closed : BOOLEAN, aborted : BOOLEAN, untracked : BOOLEAN]

\* The shape of the state.
SpendingTypeOK ==
  /\ period \in Periods /\ limit \in Limits /\ top \in [Periods -> Nat]
  /\ res \in [Turns -> Reservation]
  /\ ledger \in [Turns -> [Calls -> LedgerRow]]
  /\ at \in [Turns -> [Calls -> Places]]
  /\ sent \in [Turns -> [Calls -> Costs \cup {Unknown}]]
  /\ ahead \in [Turns -> [Calls -> SUBSET Calls]]
  /\ released \in [Turns -> SUBSET Calls]
  /\ open \in [Turns -> SUBSET Calls]
  /\ cb \in [Turns -> Callback]
  /\ fin \in [Turns -> {"none", "waiting", "settling", "done", "crashed"}]
  /\ dispatched \in [Turns -> SUBSET Calls]

WithinHold == [t \in Turns |-> SmallerOf(res[t].charged, Hold)]

\* Leaving aside what a turn spends over its own hold, a month is never charged more
\* than its highest limit, whatever settles, is closed or reconciled in between.
BudgetHolds ==
  \A p \in Periods : SumFunctionOnSet(WithinHold, InPeriod(p)) <= top[p]

\* A turn that gets part of its hold back has every call it dispatched on record, with
\* its cost: a lost answer, an abort, a late completion or a crash returns nothing.
RefundIsExact ==
  \A t \in Turns :
    res[t].status = "settled" /\ ~res[t].verified /\ res[t].charged < Hold =>
      /\ \A c \in dispatched[t] : ledger[t][c].status = "complete"
      /\ res[t].charged = CostOf(ledger[t])
      /\ ~cb[t].untracked

\* The state has its shape, and no refund is more than what was left.
SpendingInvariant == SpendingTypeOK /\ RefundIsExact

\* "Late call completions do not overwrite an administrator's reconciliation."
VerifiedStays == [][\A t \in Turns : res[t].verified => res'[t] = res[t]]_spendingVars

\* A model start never waits for good behind another one, whatever the provider does.
QueueDrains ==
  \A t \in Turns, c \in Calls : (at[t][c] = "queued") ~> (at[t][c] # "queued" \/ fin[t] = "crashed")
=============================================================================
