------------------------------ MODULE TurnIds ------------------------------
(* The turns, which several records of the database are keyed by.          *)
CONSTANT Turns
=============================================================================
