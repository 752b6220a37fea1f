SPECIFICATION SafetySpec
CONSTANTS
  MaxSignals = 1
  EarlySignals = TRUE
  MayFail = FALSE
  Busy = {"client", "processor"}
  NewLevels = {}
INVARIANT LocksOrdered
CHECK_DEADLOCK FALSE
