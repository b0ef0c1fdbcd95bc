SPECIFICATION ShortSpec
CONSTANTS
  t1 = t1  t2 = t2
  Turns = {t1, t2}
  NoTurn = NoTurn
  MaxText = 1
INVARIANTS MessageInvariant FinalIsFinal
PROPERTIES TurnSettles AbandonedRowSettles
CHECK_DEADLOCK FALSE
