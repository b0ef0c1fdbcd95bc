SPECIFICATION Spec
CONSTANTS
  t1 = t1  t2 = t2
  Turns = {t1}
  NoTurn = NoTurn
  MaxText = 1
INVARIANTS SweptStaysEnded
CHECK_DEADLOCK FALSE
