SPECIFICATION Spec
CONSTRAINT OneException
CONSTANTS
  k1 = k1
  k2 = k2
  Ticks = {k1, k2}
  MaxJobs = 1
  MaxOthers = 1
  MaxFailures = 2
  JobTimeout = 1
  SettleGrace = 1
  SweepBuffer = 0
SYMMETRY Symmetric
INVARIANTS
  LiveRunsAreNotSwept
