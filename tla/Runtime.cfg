SPECIFICATION Spec
CONSTRAINT TwoDisturbances
CONSTANTS
  t1 = t1
  t2 = t2
  Turns = {t1, t2}
  Warm = Warm
  Earlier = Earlier
  None = None
  Stale = {t1, t2}
SYMMETRY Symmetric
INVARIANTS
  RuntimeInvariant RunningTurnKept WorkIsFenced IntegrationApplied
