SPECIFICATION Spec
CONSTRAINTS OneEnding OneKindOfFault
CONSTANTS
  r1 = r1 r2 = r2 r3 = r3 k0 = k0 k1 = k1 k2 = k2 k3 = k3
  Requests = {r1, r2}
  Tokens = {k0, k1, k2}
  First = k0
  None = None
  Pending = Pending
SYMMETRY RotationSymmetry
INVARIANTS RotationInvariant EndedStaysEnded NoFalseTheft ReuseIsRecorded
CHECK_DEADLOCK FALSE
