---------------------------- MODULE SessionLock ----------------------------
(***************************************************************************)
(* What the execution lease promises to the rest of the backend, with no   *)
(* clock, no heartbeat and no database row: a session is held by at most   *)
(* one turn, a turn holds its session at most once in its life, and the    *)
(* turns that hold a session stay within the two running-turn caps of the  *)
(* tenant.  ExecutionLease implements this specification.                  *)
(***************************************************************************)
EXTENDS Naturals, FiniteSets

CONSTANTS
  Sessions,    \* the sessions of one tenant
  Turns,       \* the admission attempts; the attempt is its execution id
  SessionOf,   \* the session each attempt is for
  UserOf,      \* the user who sends it
  PerUser,     \* MAX_RUNNING_TURNS_PER_USER
  PerTenant,   \* MAX_RUNNING_TURNS_PER_TENANT
  NoTurn

VARIABLES
  holder,      \* the turn that holds each session, or NoTurn
  used         \* the turns that were ever granted their session

lockVars == <<holder, used>>

Held == {s \in Sessions : holder[s] # NoTurn}
HeldBy(u) == {s \in Held : UserOf[holder[s]] = u}

LockInit ==
  /\ holder = [s \in Sessions |-> NoTurn]
  /\ used = {}

Grant(t) ==
  /\ t \notin used
  /\ holder[SessionOf[t]] = NoTurn
  /\ Cardinality(Held) < PerTenant
  /\ Cardinality(HeldBy(UserOf[t])) < PerUser
  /\ holder' = [holder EXCEPT ![SessionOf[t]] = t]
  /\ used' = used \cup {t}

\* Release, a stop, a revocation or the passing of time: several at once when
\* a member leaves the tenant or several leases end at the same instant.
Drop(S) ==
  /\ holder' = [s \in Sessions |-> IF s \in S THEN NoTurn ELSE holder[s]]
  /\ UNCHANGED used

LockNext ==
  \/ \E t \in Turns : Grant(t)
  \/ \E S \in SUBSET Held : Drop(S)

LockSpec == LockInit /\ [][LockNext]_lockVars
=============================================================================
