SPECIFICATION SafetySpec
CONSTANTS
  UnixClient = {"u"}
  WindowsClient = {}
  MaxClients = 1
  MaxAttempts = 1
CHECK_DEADLOCK FALSE
INVARIANT KeyFromServer
