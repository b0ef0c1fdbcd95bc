--------------------------- MODULE ExecutionLease ---------------------------
(***************************************************************************)
(* The execution lease of a session: one row of session_executions, the    *)
(* admission transaction that takes it, the heartbeat and the local        *)
(* watchdog that keep it, and everything that ends it: release, Stop, the  *)
(* revocation triggers, expiry and the sweep.  The assistant messages and  *)
(* the approvals that the same statements close are in TurnMessage and in  *)
(* ApprovalFlow.                                                           *)
(*                                                                         *)
(* One tenant.  A turn is one POST /messages: its session, its user and    *)
(* the replica that received it are fixed, and the turn stands for the     *)
(* execution id its admission generates.  A replica is one backend         *)
(* process; a restarted process is another replica, as its owner id is.    *)
(*                                                                         *)
(* Clocks: performance.now() of a replica runs at the rate of the database *)
(* clock, so both are the variable now.  Date.now() of a replica may be    *)
(* Skew away from the database clock; one line of the program compares the *)
(* two, the first deadline of a turn.                                      *)
(***************************************************************************)
EXTENDS Naturals, FiniteSets

CONSTANTS
  Sessions, Users, Replicas, Turns,
  SessionOf, UserOf, ReplicaOf,  \* what each turn asks for, and where
  Shared,          \* the sessions that belong to a project
  InitialEditors,  \* who may execute in each session at first
  LeaseLen,        \* SESSION_EXECUTION_LEASE_MS, in ticks
  PerUser,         \* MAX_RUNNING_TURNS_PER_USER
  PerTenant,       \* MAX_RUNNING_TURNS_PER_TENANT
  Skew,            \* how far a replica's wall clock is from the database clock
  Horizon,         \* bound: no lease ends later than this
  NoTurn

ASSUME TurnAssumption ==
  /\ NoTurn \notin Turns
  /\ SessionOf \in [Turns -> Sessions]
  /\ UserOf \in [Turns -> Users]
  /\ ReplicaOf \in [Turns -> Replicas]

ASSUME SessionAssumption ==
  /\ IsFiniteSet(Sessions)
  /\ Shared \subseteq Sessions
  /\ InitialEditors \in [Sessions -> SUBSET Users]

ASSUME LimitAssumption ==
  /\ LeaseLen \in Nat \ {0}
  /\ PerUser \in Nat
  /\ PerTenant \in Nat
  /\ Skew \in Nat
  /\ Horizon \in Nat

VARIABLES
  now,       \* the clock of the database, and performance.now() of the replicas
  members,   \* tenant_memberships
  editors,   \* per session: its owner, or the editors of its project
  open,      \* the sessions with status 'active'
  exec,      \* session_executions: one row per session
  pc,        \* per turn: where POST /messages is
  deadline,  \* per turn: the deadline of the local watchdog, 0 once it is stopped
  hb,        \* per turn: the heartbeat query in flight
  hbStart,   \* per turn: when that query was sent
  gone,      \* the replicas that crashed
  fenced,    \* history: the turns whose row a Stop or a revocation ended
  misread    \* history, per turn: the expires_at that a late wall clock put further
             \* off, while the turn goes by that deadline, and 0 otherwise

access == <<members, editors, open>>
local == <<pc, deadline, hb, hbStart>>
vars == <<now, access, exec, local, gone, fenced, misread>>

NoRow == [id |-> NoTurn, status |-> "none", expires |-> 0, bound |-> FALSE]
Row == [id : Turns \cup {NoTurn}, status : {"none", "active", "stopped", "finished"},
        expires : Nat, bound : BOOLEAN]

Init ==
  /\ now = 0
  /\ members = Users
  /\ editors = InitialEditors
  /\ open = Sessions
  /\ exec = [s \in Sessions |-> NoRow]
  /\ pc = [t \in Turns |-> "idle"]
  /\ deadline = [t \in Turns |-> 0]
  /\ hb = [t \in Turns |-> "idle"]
  /\ hbStart = [t \in Turns |-> 0]
  /\ gone = {}
  /\ fenced = {}
  /\ misread = [t \in Turns |-> 0]

-----------------------------------------------------------------------------
(* The row                                                                 *)

Active(s) == exec[s].status = "active"
Live(s) == Active(s) /\ now < exec[s].expires
Expired(s) == Active(s) /\ exec[s].expires <= now

LiveSessions == {s \in Sessions : Live(s)}
LiveOf(u) == {s \in LiveSessions : UserOf[exec[s].id] = u}

\* The row is that of turn t.
RowOf(t) == exec[SessionOf[t]].id = t

\* sessionExecutionAccessSql: the membership is part of a project role only.
Access(s, u) ==
  /\ s \in open
  /\ u \in editors[s]
  /\ s \in Shared => u \in members

\* What isCurrent and heartbeat require beside the row itself.
Permitted(t) == Access(SessionOf[t], UserOf[t]) /\ UserOf[t] \in members

IsCurrent(t) == RowOf(t) /\ Live(SessionOf[t]) /\ Permitted(t)

StopRows(S) ==
  exec' = [s \in Sessions |-> IF s \in S THEN [exec[s] EXCEPT !.status = "stopped"] ELSE exec[s]]

\* Rows that end by someone's act, and not because their time is over.
FenceRows(S) ==
  /\ StopRows(S)
  /\ fenced' = fenced \cup {exec[s].id : s \in S}

-----------------------------------------------------------------------------
(* Admission                                                               *)

SlotHeld(t) == pc[t] \in {"marked", "checked", "running", "releasing", "released"}
Admitted(t) == pc[t] \in {"running", "releasing", "released", "done"}
Alive(t) == ReplicaOf[t] \notin gone

\* The local reservation: no await between the busy check, the local caps and
\* activeTurns.mark, so it is one step.
Mark(t) ==
  LET here == {x \in Turns : ReplicaOf[x] = ReplicaOf[t] /\ SlotHeld(x)}
  IN /\ pc[t] = "idle" /\ Alive(t)
     /\ \A x \in here : SessionOf[x] # SessionOf[t]
     /\ Cardinality(here) < PerTenant
     /\ Cardinality({x \in here : UserOf[x] = UserOf[t]}) < PerUser
     /\ pc' = [pc EXCEPT ![t] = "marked"]
     /\ UNCHANGED <<now, access, exec, deadline, hb, hbStart, gone, fenced, misread>>

Admissible(t) ==
  /\ Permitted(t)
  /\ ~Live(SessionOf[t])
  /\ Cardinality(LiveSessions) < PerTenant
  /\ Cardinality(LiveOf(UserOf[t])) < PerUser

\* The transaction of acquire holds the tenant's advisory lock, the project and
\* the session row, and a share lock on the membership from here to its commit.
LockedBy(t) == pc[t] = "checked" /\ Alive(t)

\* Without the advisory lock only the session row is exclusive.
SessionRowFree(t) == \A x \in Turns : LockedBy(x) => SessionOf[x] # SessionOf[t]
AdmissionLockFree(t) == \A x \in Turns : ~LockedBy(x)

\* No open admission reads the membership, or the project and the session, that
\* a revocation is about to change.
MemberLockSkipped(u) == u \in Users
MemberUnlocked(u) == \A t \in Turns : LockedBy(t) => UserOf[t] # u
SessionUnlocked(s) == \A t \in Turns : LockedBy(t) => SessionOf[t] # s

AcquireCheck(t) ==
  /\ pc[t] = "marked" /\ Alive(t)
  /\ AdmissionLockFree(t)
  /\ pc' = [pc EXCEPT ![t] = IF Admissible(t) THEN "checked" ELSE "refused"]
  /\ UNCHANGED <<now, access, exec, deadline, hb, hbStart, gone, fenced, misread>>

\* An error rolls the transaction back; the request ends.
AcquireFail(t) ==
  /\ LockedBy(t)
  /\ pc' = [pc EXCEPT ![t] = "refused"]
  /\ UNCHANGED <<now, access, exec, deadline, hb, hbStart, gone, fenced, misread>>

\* expiresAt - Date.now(): the database issued the one, the replica's wall clock
\* says the other.
TimeLeft == (IF LeaseLen > Skew THEN LeaseLen - Skew ELSE 0)..(LeaseLen + Skew)

\* An expired generation is finished by the same transaction, which replaces its
\* row.  The watchdog starts from the time that seems to be left.
AcquireCommit(t) ==
  /\ LockedBy(t)
  /\ now + LeaseLen <= Horizon
  /\ exec' = [exec EXCEPT ![SessionOf[t]] =
       [id |-> t, status |-> "active", expires |-> now + LeaseLen, bound |-> FALSE]]
  /\ pc' = [pc EXCEPT ![t] = "running"]
  /\ \E left \in TimeLeft :
       /\ deadline' = [deadline EXCEPT ![t] = now + left]
       /\ misread' = [misread EXCEPT ![t] = IF left > LeaseLen THEN now + LeaseLen ELSE 0]
  /\ UNCHANGED <<now, access, hb, hbStart, gone, fenced>>

-----------------------------------------------------------------------------
(* The heartbeat and the local watchdog                                    *)

HeartbeatSend(t) ==
  /\ pc[t] = "running" /\ Alive(t)
  /\ hb[t] = "idle"
  /\ now < deadline[t]
  /\ hb' = [hb EXCEPT ![t] = "sent"]
  /\ hbStart' = [hbStart EXCEPT ![t] = now]
  /\ UNCHANGED <<now, access, exec, pc, deadline, gone, fenced, misread>>

RenewableAfterExpiry(t) == RowOf(t) /\ Active(SessionOf[t]) /\ Permitted(t)
Renewable(t) == IsCurrent(t)

\* The UPDATE.  The query outlives the watchdog and the process that sent it.
HeartbeatCommit(t) ==
  /\ hb[t] = "sent"
  /\ now + LeaseLen <= Horizon
  /\ IF Renewable(t)
     THEN /\ exec' = [exec EXCEPT ![SessionOf[t]].expires = now + LeaseLen]
          /\ hb' = [hb EXCEPT ![t] = "renewed"]
     ELSE /\ hb' = [hb EXCEPT ![t] = "refused"]
          /\ UNCHANGED exec
  /\ UNCHANGED <<now, access, pc, deadline, hbStart, gone, fenced, misread>>

\* The authority an answer confirms, counted from when the query was sent.
ConfirmedFromAnswer(t) == now + LeaseLen
ConfirmedUntil(t) == hbStart[t] + LeaseLen

\* The admission ends; stopping the watchdog and the heartbeat is its first effect.
EndWatch(t) ==
  /\ pc' = [pc EXCEPT ![t] = "releasing"]
  /\ deadline' = [deadline EXCEPT ![t] = 0]
  /\ misread' = [misread EXCEPT ![t] = 0]

\* A lost lease ends the admission.
HeartbeatReply(t) ==
  /\ hb[t] \in {"renewed", "refused"} /\ Alive(t)
  /\ hb' = [hb EXCEPT ![t] = "idle"]
  /\ hbStart' = [hbStart EXCEPT ![t] = 0]
  /\ \/ /\ pc[t] # "running"
        /\ UNCHANGED <<pc, deadline, misread>>
     \/ /\ pc[t] = "running"
        /\ hb[t] = "refused" \/ deadline[t] <= now
        /\ EndWatch(t)
     \/ /\ pc[t] = "running"
        /\ hb[t] = "renewed" /\ now < deadline[t]
        /\ deadline' = [deadline EXCEPT ![t] = ConfirmedUntil(t)]
        /\ misread' = [misread EXCEPT ![t] = 0]
        /\ UNCHANGED pc
  /\ UNCHANGED <<now, access, exec, gone, fenced>>

\* The query fails, or its answer is lost after the UPDATE took effect.
HeartbeatFail(t) ==
  /\ hb[t] # "idle"
  /\ hb' = [hb EXCEPT ![t] = "idle"]
  /\ hbStart' = [hbStart EXCEPT ![t] = 0]
  /\ UNCHANGED <<now, access, exec, pc, deadline, gone, fenced, misread>>

\* A stalled query does not postpone the timer.
OverdueWhenIdle(t) == deadline[t] <= now /\ hb[t] = "idle"
Overdue(t) == deadline[t] <= now

WatchdogExpires(t) ==
  /\ pc[t] = "running" /\ Alive(t)
  /\ Overdue(t)
  /\ EndWatch(t)
  /\ UNCHANGED <<now, access, exec, hb, hbStart, gone, fenced>>

-----------------------------------------------------------------------------
(* bindRuntime, called by createSession after its isCurrent                *)

BindRuntime(t) ==
  /\ Admitted(t) /\ Alive(t)
  /\ IsCurrent(t) /\ ~exec[SessionOf[t]].bound
  /\ exec' = [exec EXCEPT ![SessionOf[t]].bound = TRUE]
  /\ UNCHANGED <<now, access, local, gone, fenced, misread>>

-----------------------------------------------------------------------------
(* The end of an admission: releaseAdmission                               *)

BeginRelease(t) ==
  /\ pc[t] = "running" /\ Alive(t)
  /\ EndWatch(t)
  /\ UNCHANGED <<now, access, exec, hb, hbStart, gone, fenced>>

\* release, or its error, which is logged and leaves the row to expire.
Release(t) ==
  LET s == SessionOf[t]
  IN /\ pc[t] = "releasing" /\ Alive(t)
     /\ pc' = [pc EXCEPT ![t] = "released"]
     /\ \/ /\ RowOf(t) /\ Active(s)
           /\ exec' = [exec EXCEPT ![s].status = "finished"]
        \/ UNCHANGED exec
     /\ UNCHANGED <<now, access, deadline, hb, hbStart, gone, fenced, misread>>

FreeSlot(t) ==
  /\ pc[t] = "released" /\ Alive(t)
  /\ pc' = [pc EXCEPT ![t] = "done"]
  /\ UNCHANGED <<now, access, exec, deadline, hb, hbStart, gone, fenced, misread>>

-----------------------------------------------------------------------------
(* Everything else that ends a generation                                  *)

Stop(s, u) ==
  /\ Live(s) /\ Access(s, u)
  /\ FenceRows({s})
  /\ UNCHANGED <<now, access, local, gone, misread>>

SweepableWhenBound(s) == Expired(s) /\ exec[s].bound
Sweepable(s) == Expired(s)

SweepExpired(s) ==
  /\ Sweepable(s)
  /\ StopRows({s})
  /\ UNCHANGED <<now, access, local, gone, fenced, misread>>

Depart(u) ==
  /\ u \in members
  /\ MemberUnlocked(u)
  /\ members' = members \ {u}
  /\ FenceRows({s \in Sessions : Active(s) /\ UserOf[exec[s].id] = u})
  /\ UNCHANGED <<now, editors, open, local, gone, misread>>

RevokeEditor(s, u) ==
  /\ s \in Shared /\ u \in editors[s]
  /\ SessionUnlocked(s)
  /\ editors' = [editors EXCEPT ![s] = @ \ {u}]
  /\ FenceRows({x \in {s} : Active(x) /\ UserOf[exec[x].id] = u})
  /\ UNCHANGED <<now, members, open, local, gone, misread>>

\* setArchived and remove.  Only a project session is checked for a running turn
\* in the database; the route's own busy check sees one replica, and the request
\* may reach one that runs no turn.
CloseSession(s) ==
  /\ s \in open
  /\ SessionUnlocked(s)
  /\ s \in Shared => ~Live(s)
  /\ open' = open \ {s}
  /\ FenceRows({x \in {s} : Active(x)})
  /\ UNCHANGED <<now, members, editors, local, gone, misread>>

\* Permission comes back; no row is touched.
Rejoin(u) ==
  /\ u \notin members
  /\ members' = members \cup {u}
  /\ UNCHANGED <<now, editors, open, exec, local, gone, fenced, misread>>

GrantEditor(s, u) ==
  /\ s \in Shared /\ u \in members \ editors[s]
  /\ editors' = [editors EXCEPT ![s] = @ \cup {u}]
  /\ UNCHANGED <<now, members, open, exec, local, gone, fenced, misread>>

Restore(s) ==
  /\ s \in Sessions \ open
  /\ open' = open \cup {s}
  /\ UNCHANGED <<now, members, editors, exec, local, gone, fenced, misread>>

\* The process dies: its transaction rolls back, its queries may still run.
Crash(r) ==
  /\ r \in Replicas \ gone
  /\ gone' = gone \cup {r}
  /\ UNCHANGED <<now, access, exec, local, fenced, misread>>

Tick ==
  /\ now < Horizon + Skew
  /\ now' = now + 1
  /\ UNCHANGED <<access, exec, local, gone, fenced, misread>>

-----------------------------------------------------------------------------
TurnStep(t) ==
  \/ Mark(t) \/ AcquireCheck(t) \/ AcquireFail(t) \/ AcquireCommit(t)
  \/ HeartbeatSend(t) \/ HeartbeatCommit(t) \/ HeartbeatReply(t) \/ HeartbeatFail(t)
  \/ WatchdogExpires(t)
  \/ BindRuntime(t)
  \/ BeginRelease(t) \/ Release(t) \/ FreeSlot(t)

Revocation ==
  \/ \E u \in Users : Depart(u) \/ Rejoin(u)
  \/ \E s \in Sessions, u \in Users : RevokeEditor(s, u) \/ GrantEditor(s, u)
  \/ \E s \in Sessions : CloseSession(s) \/ Restore(s)

Next ==
  \/ \E t \in Turns : TurnStep(t)
  \/ \E s \in Sessions, u \in Users : Stop(s, u)
  \/ \E s \in Sessions : SweepExpired(s)
  \/ Revocation
  \/ \E r \in Replicas : Crash(r)
  \/ Tick

Spec == Init /\ [][Next]_vars

\* Timers fire and the event loop of a live replica goes on; the sweep runs on
\* an interval on every replica.  Nothing is assumed of users, of members, of
\* heartbeats, of admission, or of the body of a turn, which may be stuck.
Timers(t) == WatchdogExpires(t) \/ Release(t) \/ FreeSlot(t)

Fairness ==
  /\ WF_vars(Tick)
  /\ \A s \in Sessions : WF_vars(SweepExpired(s))
  /\ \A t \in Turns : WF_vars(Timers(t))

LiveSpec == Spec /\ Fairness

-----------------------------------------------------------------------------
(* Properties                                                              *)

TurnStates == {"idle", "marked", "checked", "refused", "running", "releasing", "released", "done"}

\* The shape of the state.
TypeOK ==
  /\ now \in Nat
  /\ members \subseteq Users
  /\ editors \in [Sessions -> SUBSET Users]
  /\ open \subseteq Sessions
  /\ exec \in [Sessions -> Row]
  /\ pc \in [Turns -> TurnStates]
  /\ deadline \in [Turns -> Nat]
  /\ hb \in [Turns -> {"idle", "sent", "renewed", "refused"}]
  /\ hbStart \in [Turns -> Nat]
  /\ gone \subseteq Replicas
  /\ fenced \subseteq Turns \cup {NoTurn}
  /\ misread \in [Turns -> Nat]

Holds(t) == RowOf(t) /\ Live(SessionOf[t])
Armed(t) == pc[t] = "running" /\ now < deadline[t]

\* While its watchdog has not fired, a turn still holds its session, or someone
\* stopped it: query latency, lost answers and late replies never leave a turn that
\* goes on after its lease is over, let alone beside the next one.  Only a turn that
\* was admitted by a late wall clock and has not heard of a renewal yet goes on, by
\* less than the skew.
LocalAuthority ==
  \A t \in Turns : Armed(t) /\ ~Holds(t) =>
    t \in fenced \/ (misread[t] # 0 /\ now < misread[t] + Skew)

\* The running-turn caps hold over every replica, through admissions that race,
\* leases that expire and heartbeats that arrive late.
CapsHold ==
  /\ Cardinality(LiveSessions) <= PerTenant
  /\ \A u \in Users : Cardinality(LiveOf(u)) <= PerUser

\* No row is active for a user who may not execute in its session, even when the
\* permission is withdrawn while the admission transaction is open.
NoUnpermittedHolder ==
  \A t \in Turns : RowOf(t) /\ Active(SessionOf[t]) => Permitted(t)

-----------------------------------------------------------------------------
(* The inductive invariant that the proofs use                             *)

OwnRow(t) == RowOf(t) /\ Active(SessionOf[t])

\* A row is that of an admitted turn of its session, and grants one lease from now
\* at most, so that a renewal never shortens it.
RowInv ==
  \A s \in Sessions :
    /\ exec[s].id \in Turns => SessionOf[exec[s].id] = s /\ Admitted(exec[s].id)
    /\ Active(s) => exec[s].id \in Turns
    /\ exec[s].expires <= now + LeaseLen

\* What an open admission has checked stays true until it commits.
LockInv ==
  \A x \in Turns : LockedBy(x) =>
    /\ Permitted(x)
    /\ ~Live(SessionOf[x])
    /\ \A y \in Turns : LockedBy(y) => x = y

\* The local deadline, and the one a renewal in flight will set, never lie beyond
\* the authority the database granted; a misread one does, by the skew.
WatchInv ==
  \A t \in Turns :
    /\ hb[t] # "idle" => hbStart[t] <= now
    /\ hb[t] = "renewed" /\ pc[t] = "running" =>
         IF OwnRow(t) THEN hbStart[t] + LeaseLen <= exec[SessionOf[t]].expires
         ELSE t \in fenced \/ hbStart[t] + LeaseLen <= now
    /\ pc[t] = "running" =>
         IF misread[t] # 0 THEN deadline[t] <= misread[t] + Skew
         ELSE IF OwnRow(t) THEN deadline[t] <= exec[SessionOf[t]].expires
         ELSE t \in fenced \/ deadline[t] <= now

\* An open admission still has room under both caps.
RoomInv ==
  \A x \in Turns : LockedBy(x) =>
    /\ Cardinality(LiveSessions) < PerTenant
    /\ Cardinality(LiveOf(UserOf[x])) < PerUser

\* Rows, locks, permissions, watchdogs and room, together inductive.
LeaseInvariant ==
  TypeOK /\ RowInv /\ LockInv /\ NoUnpermittedHolder /\ WatchInv /\ RoomInv /\ CapsHold

-----------------------------------------------------------------------------
\* The lease implements the bounded lock of SessionLock.
Lock == INSTANCE SessionLock WITH
  holder <- [s \in Sessions |-> IF Live(s) THEN exec[s].id ELSE NoTurn],
  used <- {t \in Turns : Admitted(t)}
ImplementsLock == Lock!LockSpec

\* The lease of a turn whose replica crashed does not stay active.
AbandonedLeaseEnds ==
  \A t \in Turns :
    (RowOf(t) /\ Active(SessionOf[t]) /\ ~Alive(t)) ~> ~(RowOf(t) /\ Active(SessionOf[t]))

\* A turn that lost its session, to a stop or to time, gives its local slot back,
\* however long its heartbeat hangs and its runtime takes to abort.
FencedTurnFreesSlot ==
  \A t \in Turns : (pc[t] = "running" /\ ~Holds(t)) ~> (~SlotHeld(t) \/ ~Alive(t))
=============================================================================
