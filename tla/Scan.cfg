SPECIFICATION LiveSpec
CONSTANTS
  w1 = w1
  w2 = w2
  Attempts = {w1, w2}
  MaxAttempts = 3
  MaxFaults = 3
  None = None
INVARIANTS ScanInvariant BlockedIsWithheld
PROPERTIES UploadSettles
CHECK_DEADLOCK FALSE
