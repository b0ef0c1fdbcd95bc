--------------------------- MODULE MCApprovalFlow ---------------------------
(* Small instances of ApprovalFlow.                                        *)
EXTENDS ApprovalFlow, TLC

CONSTANTS t1, t2, r1, r2, p1, n1, d1, c1, c2

\* Turns, replicas and calls are interchangeable.  A reduction by names that keeps
\* liveness checkable: the first turn to leave idle is t1, on r1, and the first call
\* that is made is c1.
FirstIsNamedFirst ==
  /\ turn[t1] = "idle" => turn[t2] = "idle"
  /\ call[c1].pc = "idle" => call[c2].pc = "idle"

\* Bound: a native approval is asked for by t1 alone, in a behaviour of its own.
NativeIsAlone ==
  \A a \in Native :
    /\ req[t2][a] = None
    /\ req[t1][a] # None => turn[t2] = "idle" /\ \A b \in Policy : req[t1][b] = None

\* Bound: the second turn does not crash, and while a second call is made it is
\* not there.
SecondTurnIsPlain ==
  turn[t2] # "crashed" /\ (call[c2].pc # "idle" => turn[t2] = "idle")

\* Fairness, without the timers that NativeIsAlone keeps from being set.
NamedFairness ==
  /\ \A t \in Turns, a \in Approvals : t = t1 \/ a \in Policy => WF_vars(TtlFires(t, a))
  /\ \A a \in Approvals : WF_vars(Overdue(a))
  /\ WF_vars(SweepExpired)

NamedSpec ==
  /\ Init /\ host[t1] = r1
  /\ [][Next /\ FirstIsNamedFirst' /\ NativeIsAlone' /\ SecondTurnIsPlain']_vars
  /\ NamedFairness
=============================================================================
