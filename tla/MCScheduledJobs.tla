-------------------------- MODULE MCScheduledJobs --------------------------
(* Instances of ScheduledJobs for TLC.                                     *)
EXTENDS ScheduledJobs, TLC

CONSTANTS k1, k2

Symmetric == Permutations(Ticks)

\* Bound: one exception at a time: a poisoned job that is enabled again, an owner
\* whose security version moved, a turn that ignores its abort, or a slow abort.
OneException ==
  Cardinality({e \in 1..4 : <<excused, stale \/ outdated, ignored, slow>>[e]}) <= 1
=============================================================================
