-------------------------- MODULE MCModelSpending --------------------------
(* Small instances of ModelSpending.                                       *)
EXTENDS ModelSpending, TLC

CONSTANTS t1, t2, c1, c2

\* Bound: the second turn reserves its part of the budget, and no more.
SecondTurnReserves ==
  /\ at'[t2] = at[t2] /\ cb'[t2] = cb[t2] /\ fin'[t2] = fin[t2]
  /\ res'[t2].status \in {"none", "reserved"}

\* Bound: the policy changes in the first month.
PolicyIsEarly == period' = 0 \/ limit' = limit

ReserveSpec ==
  SpendingInit /\ [][SpendingNext /\ SecondTurnReserves /\ PolicyIsEarly]_spendingVars /\ TurnFairness(t1)
=============================================================================
