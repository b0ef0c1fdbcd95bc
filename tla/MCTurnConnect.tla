--------------------------- MODULE MCTurnConnect ---------------------------
(* Small instances of TurnConnect.                                         *)
EXTENDS TurnConnect

CONSTANTS r1
=============================================================================
