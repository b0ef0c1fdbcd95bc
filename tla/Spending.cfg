CONSTANTS
  t1 = t1 t2 = t2 c1 = c1 c2 = c2
  Turns = {t1, t2}
  Calls = {c1, c2}
  Costs = {0, 3}
  Unknown = Unknown
  Limits = {3, 4}
  Hold = 2
  MaxPeriod = 1
SPECIFICATION ReserveSpec
INVARIANTS SpendingInvariant BudgetHolds
PROPERTIES VerifiedStays QueueDrains
CHECK_DEADLOCK FALSE
