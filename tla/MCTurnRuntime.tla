--------------------------- MODULE MCTurnRuntime ---------------------------
(* Instances of TurnRuntime for TLC.                                       *)
EXTENDS TurnRuntime, Naturals, TLC

CONSTANTS t1, t2

Symmetric == Permutations(Turns)

\* Bound: a turn that is stopped or aborted, a runtime that an integration change
\* outdates and an entry that is evicted: two of these in a behaviour.
TwoDisturbances ==
  Cardinality(stopping \cup cancelled \cup halted) + Cardinality(outdated) + Cardinality(evicted) <= 2
=============================================================================
