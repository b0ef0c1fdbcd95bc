--------------------------- MODULE MCTurnMessage ---------------------------
(* Small instances of TurnMessage.                                         *)
EXTENDS TurnMessage, TLC

CONSTANTS t1, t2

\* Bound: the second turn takes the session, gets its row and may crash, which
\* is all that the rows of two turns have to do with each other.
SecondTurnIsShort == pc'[t2] \in {pc[t2], "admitted", "setup", "crashed"}

ShortSpec == Init /\ [][Next /\ SecondTurnIsShort]_vars /\ Fairness
=============================================================================
