SPECIFICATION Spec
CONSTANTS
  Client = {c1, c2}
  Admin = {}
  MaxClients = 2
  MaxFd = 5
  AdminTimeout = 0
  AdminBacklog = 1
  ClientBacklog = 2
  ClientTexts <- MCClientTexts
  AdminTexts <- MCNoTexts
  PollMayFail = FALSE
PROPERTIES HangupFreesSlot ConnectAnswered
