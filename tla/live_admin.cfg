SPECIFICATION Spec
CONSTANTS
  Client = {c1}
  Admin = {a1}
  MaxClients = 1
  MaxFd = 5
  AdminTimeout = 1
  AdminBacklog = 1
  ClientBacklog = 2
  ClientTexts <- MCNoTexts
  AdminTexts <- MCLevelTexts
  PollMayFail = FALSE
INVARIANTS TypeOK ConnectionInv
PROPERTIES ShutdownCompletes IdleAdminEvicted
