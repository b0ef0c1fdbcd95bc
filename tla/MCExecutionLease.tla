-------------------------- MODULE MCExecutionLease --------------------------
(* Small instances of ExecutionLease.                                      *)
EXTENDS ExecutionLease

CONSTANTS s1, s2, u1, r1, r2, t1, t2

\* Two turns of one session, on two replicas.
TwoSessionOf == [t \in Turns |-> s1]
TwoReplicaOf == [t \in Turns |-> IF t = t1 THEN r1 ELSE r2]

\* One user, who may execute everywhere at first.
OneUserOf == [t \in Turns |-> u1]
OwnerOnly == [s \in Sessions |-> {u1}]

\* Two sessions under caps of one.
CapSessionOf == [t \in Turns |-> IF t = t2 THEN s2 ELSE s1]

\* Bound: one thing is wrong at a time, a membership, an editor or a session
\* withdrawn, or a replica dead.  What was withdrawn may come back.
OneWithdrawal ==
  Cardinality(Users \ members) + Cardinality(Sessions \ open) + Cardinality(gone)
    + Cardinality({s \in Sessions : editors[s] # InitialEditors[s]}) <= 1
=============================================================================
