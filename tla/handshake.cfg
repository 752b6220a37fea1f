SPECIFICATION Spec
CONSTANTS
  UnixClient = {"u"}
  WindowsClient = {"w"}
  MaxClients = 1
  MaxAttempts = 2
CHECK_DEADLOCK FALSE
INVARIANT TypeOK
PROPERTIES AttemptEnds SlotReturned
