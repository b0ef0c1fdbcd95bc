SPECIFICATION LiveSpec
CONSTANTS
  r1 = r1
  Readers = {r1}
  Pieces = 2
  LogWindow = 2
  BusWindow = 2
INVARIANTS ViewInvariant
PROPERTIES FollowsTurn StreamEnds
CHECK_DEADLOCK FALSE
