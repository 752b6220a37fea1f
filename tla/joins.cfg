SPECIFICATION Spec
CONSTANTS
  MaxSignals = 0
  EarlySignals = FALSE
  MayFail = TRUE
  Busy = {"admin"}
  NewLevels = {"ERROR"}
INVARIANT DestroyedWhenIdle
PROPERTY ShutdownEndsThreads
