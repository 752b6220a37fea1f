SPECIFICATION Spec
CONSTANTS
  MaxSignals = 1
  EarlySignals = FALSE
  MayFail = FALSE
  Busy = {}
  NewLevels = {}
PROPERTY SignalStopsServer
CHECK_DEADLOCK FALSE
